---------------------------- MODULE Spec2Model ----------------------------
(***************************************************************************)
(* Model of the cluster orchestrator of ARIBA (ariba/cluster.py): one      *)
(* Cluster object, its run() / _run() pipeline, the signal handler and     *)
(* the atexit hook.  The collaborators that cluster.py calls (chooser,     *)
(* assembler, mapper, comparator, variant modules, report, flag) are       *)
(* represented by the results they hand back to the orchestrator.          *)
(***************************************************************************)
EXTENDS Integers, Sequences, FiniteSets, TLC

VARIABLES
    pc,                 \* position of the control flow of run() / _run()
    fail_file,          \* self.fail_file: "None" or the marker path
    clean,              \* self.clean
    read_store,         \* TRUE iff self.read_store (and reference_names) is given
    files,              \* paths that exist in the file system
    cwd,                \* process working directory
    log_fh,             \* self.log_fh: "None", "open", or "closed" (a closed file object)
    log,                \* lines written to the cluster log
    log_closes,         \* number of times the log handle was closed
    atexit_registered,  \* self._atexit is registered with atexit
    status_flag,        \* self.status_flag: the set of tags that are set
    ref_sequence,       \* self.ref_sequence
    assembled_ok,       \* self.assembled_ok: "unset", "True" or "False"
    assembly,           \* self.assembly: the attributes _run reads
    assembly_compare,   \* self.assembly_compare
    assembly_variants,  \* self.assembly_variants, as the list of its values()
    samtools_vars,      \* self.samtools_vars
    report_lines,       \* self.report_lines
    exc,                \* exception in flight or delivered to the caller
    raised_in,          \* stage that raised it
    signalled,          \* a termination signal has been handled
    exit_status,        \* status passed to sys.exit that ends the process
    started,            \* stages invoked so far, in order
    completed,          \* stages that ran to completion, in order
    mapped_reads,       \* the two read files handed to mapping.run_bowtie2
    reads_for_assembly, \* what _make_reads_for_assembly made: "unset", "subset", "links"
    staged,             \* calls made to the read store and the reference data, in order
    waiting,            \* the stage whose external tool has not returned, or "None"
    attempt,            \* which use of root_dir this is: the first run(), a second, a retry
    proc,               \* one process with several Cluster objects and its signal handler
    par,                \* two clusters run in parallel: directories and paths touched
    bam,                \* the read-classification stage over the read pairs of a BAM file
    rep,                \* report rows written to the report file and read back
    sub,                \* one call of _make_reads_for_assembly, step by step
    num                 \* one call of _number_of_reads_for_assembly

vars == <<pc, fail_file, clean, read_store, files, cwd, log_fh, log, log_closes,
          atexit_registered, status_flag, ref_sequence, assembled_ok, assembly,
          assembly_compare, assembly_variants, samtools_vars, report_lines,
          exc, raised_in, signalled, exit_status, started, completed,
          mapped_reads, reads_for_assembly, staged, waiting, attempt, proc, par, bam,
          rep, sub, num>>

-----------------------------------------------------------------------------
(* Paths, relative to root_dir unless configured from outside.             *)

root_dir == "root_dir"
all_reads1 == "reads_1.fq"
all_reads2 == "reads_2.fq"
references_fa == "references.fa"
references_fai == "references.fa.fai"
reference_fa == "reference.fa"
reads_for_assembly1 == "reads_for_assembly_1.fq"
reads_for_assembly2 == "reads_for_assembly_2.fq"
assembly_dir == "Assembly"
final_assembly_fa == "assembly.fa"
final_assembly_bam == "assembly.reads_mapped.bam"
final_assembly_read_depths == "assembly.reads_mapped.bam.read_depths.gz"
final_assembly_vcf == "assembly.reads_mapped.bam.vcf"
logfile == "log.txt"
FailMarker == "fail_file"

to_delete_without_reads ==
    { "assembly.fa", "assembly.fa.fai", "assembly_compare.nucmer.coords",
      "assembly_compare.nucmer.coords.snps", "assembly.reads_mapped.bam.bai",
      "assembly.reads_mapped.bam.vcf", "assembly.reads_mapped.bam",
      "assembly.reads_mapped.bam.read_depths.gz",
      "assembly.reads_mapped.bam.read_depths.gz.tbi", "reference.fa" }

(* _clean, lines 190-203.                                                  *)
to_delete ==
    { "assembly.fa", "assembly.fa.fai", "assembly_compare.nucmer.coords",
      "assembly_compare.nucmer.coords.snps", "assembly.reads_mapped.bam.bai",
      "assembly.reads_mapped.bam.vcf", "assembly.reads_mapped.bam",
      "assembly.reads_mapped.bam.read_depths.gz",
      "assembly.reads_mapped.bam.read_depths.gz.tbi",
      "reads_1.fq", "reads_2.fq", "reference.fa" }

wanted_signals == {"SIGABRT", "SIGINT", "SIGSEGV", "SIGTERM"}

(* Exception classes as run() tells them apart: "Error" is cluster.Error,  *)
(* the only class its except clause names; "Other" is any other class      *)
(* (AssertionError, OSError, an Error class of another module).            *)
ExcKinds == {"Error", "Other"}

RefNames == {"ref1"}

-----------------------------------------------------------------------------
(* Status flag.                                                            *)

flags_in_order ==
    << "assembled", "unique_contig", "scaffold_graph_bad", "assembly_fail",
       "variants_suggest_collapsed_repeat", "hit_both_strands",
       "has_nonsynonymous_variants", "ref_seq_choose_fail" >>

AllTags == { flags_in_order[i] : i \in 1..Len(flags_in_order) }

Flag == {}

add(flag, tag) == flag \cup {tag}

has(flag, tag) == tag \in flag

to_bits(flag) ==
    [ i \in 1..Len(flags_in_order) |-> IF flags_in_order[i] \in flag THEN 1 ELSE 0 ]


-----------------------------------------------------------------------------
(* Optional values: None is the empty tuple, a value x is <<x>>.           *)

Range(f) == { f[i] : i \in DOMAIN f }

None == <<>>

Some(x) == <<x>>

(* Variants as get_variants returns them; element 4 is the consequence     *)
(* class that _run reads as var[3].  "None" stands for Python's None.      *)
Consequences == {".", "SYN", "None", "NONSYN"}

Var(c) == <<"1", "A", "C", c, "known">>

MaxLists == 2

MaxVars == 2

SeqUpTo(S, n) == UNION { [1..k -> S] : k \in 0..n }

VarLists == SeqUpTo({ Var(c) : c \in Consequences }, MaxVars)

BoundedTables == SeqUpTo(VarLists, MaxLists)

(* The variant tables the whole-run specification draws from.              *)
RunTables ==
    { <<>>,
      << <<Var("SYN")>> >>,
      << <<Var("."), Var("None")>>, <<>> >>,
      << <<Var("SYN"), Var("NONSYN")>> >>,
      << <<Var(".")>>, <<Var("NONSYN"), Var("SYN")>> >> }

var_list_loop_first_only(flag, var_list, i) ==
    IF i > Len(var_list) THEN flag
    ELSE IF var_list[i][4] \notin {".", "SYN", "None"}
         THEN add(flag, "has_nonsynonymous_variants")
         ELSE flag

(* _run() lines 399-402: the inner loop over one position's variants.      *)
RECURSIVE var_list_loop(_, _, _)
var_list_loop(flag, var_list, i) ==
    IF i > Len(var_list) THEN flag
    ELSE IF var_list[i][4] \notin {".", "SYN", "None"}
         THEN add(flag, "has_nonsynonymous_variants")
         ELSE var_list_loop(flag, var_list, i + 1)

(* _run() lines 398-405: the outer loop over assembly_variants.values().   *)
RECURSIVE values_loop(_, _, _)
values_loop(flag, table, j) ==
    IF j > Len(table) THEN flag
    ELSE LET after == var_list_loop(flag, table[j], 1)
         IN  IF has(after, "has_nonsynonymous_variants")
             THEN after
             ELSE values_loop(after, table, j + 1)

flag_after_first_list(flag, table) ==
    IF Len(table) = 0 THEN flag ELSE var_list_loop(flag, table[1], 1)

flag_after_variants(flag, table) == values_loop(flag, table, 1)

(* Positions of the assembled contigs.  assembly_match_coords() is the set *)
(* of positions the comparator matched to the reference; the VCF file of   *)
(* the variant caller is the set of positions of its passing calls.        *)
MaxPos == 3

Positions == 1..MaxPos

BoundedPositionSets == SUBSET Positions

(* The matched coordinates and the calls the whole-run specification draws *)
(* from.                                                                   *)
RunCoordSets == { {}, {1} }

RunCallSets == { {}, {1}, {2} }

(* samtools_variants.variants_in_coords: the calls of the VCF file that    *)
(* lie inside the matched coordinates; _run tests the result for truth.    *)
variants_in_coords(nucmer_matches, vcf_file) == (vcf_file \cap nucmer_matches) # {}

-----------------------------------------------------------------------------
(* The two static methods of the subsampling stage.                        *)

MaxReads == 2

MaxCount == 4

MaxSeed == 1

MaxRefLen == 3

MaxInsert == 1

MaxBases == 3

MaxCoverage == 3

(* A read file with n records; record k of file 1 and record k of file 2   *)
(* are the two mates of pair k.                                            *)
ReadsFile(n, mate) == [ k \in 1..n |-> <<k, mate>> ]

(* Values of random_seed: None, or a number.                               *)
Seeds == {None} \cup { Some(n) : n \in 0..MaxSeed }

(* random.randint(0, 100) as draw number k after random.seed(seed) with a  *)
(* number: a fixed function of the seed and of k with values in 0..100,    *)
(* standing for the generator of the Python library.  After                *)
(* random.seed(None) the draws are not a function of anything the program  *)
(* holds.                                                                  *)
randint(seed, k) == (seed * 37 + k * 59) % 101

seed_passed_omitted(self_random_seed) == None

(* _run() line 319: random_seed=self.random_seed.                          *)
seed_passed(self_random_seed) == self_random_seed

wants_subset_or_equal(number_of_wanted_reads, total_reads) ==
    number_of_wanted_reads <= total_reads

(* _make_reads_for_assembly line 232.                                      *)
wants_subset(number_of_wanted_reads, total_reads) ==
    number_of_wanted_reads < total_reads

(* The call before any input is given.                                     *)
SubIdle ==
    [ phase |-> "idle", number_of_wanted_reads |-> 0, total_reads |-> 0,
      reads_in1 |-> <<>>, reads_in2 |-> <<>>, self_random_seed |-> None,
      random_seed |-> None, draws |-> 0, i |-> 0, out1 |-> <<>>, out2 |-> <<>>,
      open |-> {}, links |-> FALSE, reads_written |-> 0, ret |-> None,
      exc |-> "None", execution |-> 0, first |-> None ]

write_pair_counts_one(s, read1, read2) ==
    [s EXCEPT !.out1 = Append(@, read1), !.out2 = Append(@, read2),
              !.reads_written = @ + 1]

write_pair_first_only(s, read1, read2) ==
    [s EXCEPT !.out1 = Append(@, read1), !.reads_written = @ + 2]

(* _make_reads_for_assembly lines 250-252.                                 *)
write_pair(s, read1, read2) ==
    [s EXCEPT !.out1 = Append(@, read1), !.out2 = Append(@, read2),
              !.reads_written = @ + 2]

no_mate_found_out2_open(s) ==
    [s EXCEPT !.open = {"out2"}, !.exc = "Error", !.phase = "raised"]

(* _make_reads_for_assembly lines 243-246: file 2 has no further read;     *)
(* close both outputs and raise Error.                                     *)
no_mate_found(s) ==
    [s EXCEPT !.open = {}, !.exc = "Error", !.phase = "raised"]

(* _make_reads_for_assembly lines 230-238 and 256-259: seed the generator, *)
(* then either open the two readers and the two writers, or link the       *)
(* outputs to the inputs and return total_reads.  A link has the content   *)
(* of its target.                                                          *)
make_reads_entry(wanted, total, in1, in2, self_seed, execution, first) ==
    LET s0 == [SubIdle EXCEPT !.number_of_wanted_reads = wanted,
                              !.total_reads = total,
                              !.reads_in1 = in1, !.reads_in2 = in2,
                              !.self_random_seed = self_seed,
                              !.random_seed = seed_passed(self_seed),
                              !.execution = execution, !.first = first]
    IN  IF wants_subset(wanted, total)
        THEN [s0 EXCEPT !.phase = "loop", !.i = 1, !.open = {"out1", "out2"}]
        ELSE [s0 EXCEPT !.phase = "returned", !.links = TRUE, !.out1 = in1,
                        !.out2 = in2, !.ret = Some(total)]

(* What one execution leaves: how it ended, its value, the output files.   *)
sub_result(s) ==
    [ phase |-> s.phase, exc |-> s.exc, ret |-> s.ret, links |-> s.links,
      out1 |-> s.out1, out2 |-> s.out2 ]

(* math.ceil(a / b) for a >= 0 and b > 0.                                  *)
ceil_div(a, b) == (a + b - 1) \div b

round_even_assigned(wanted_reads) == wanted_reads % 2

(* _number_of_reads_for_assembly line 221.                                 *)
round_even(wanted_reads) == wanted_reads + (wanted_reads % 2)

RECURSIVE gcd(_, _)
gcd(a, b) == IF b = 0 THEN a ELSE gcd(b, a % b)

RECURSIVE is_power_of_two(_)
is_power_of_two(n) == n = 1 \/ (n % 2 = 0 /\ is_power_of_two(n \div 2))

(* Line 218: total_bases / total_reads is a double.  It is the exact       *)
(* quotient when the quotient in lowest terms has a power of two as its    *)
(* denominator, and the nearest double otherwise.                          *)
mean_read_length_exact(total_bases, total_reads) ==
    is_power_of_two(total_reads \div gcd(total_bases, total_reads))

(* Line 220: wanted_bases / mean_read_length is a double again.  Its       *)
(* distance from the exact quotient wanted_bases * total_reads /           *)
(* total_bases is too small to move it across an integer, with one         *)
(* exception: when the exact quotient is a positive integer and the mean   *)
(* was rounded, the computed quotient may be the next double above that    *)
(* integer.  The set holds FALSE for "not above" and TRUE for "above".     *)
rounds_above(wanted_bases, total_bases, total_reads) ==
    {FALSE} \cup (IF /\ wanted_bases > 0
                     /\ (wanted_bases * total_reads) % total_bases = 0
                     /\ ~mean_read_length_exact(total_bases, total_reads)
                  THEN {TRUE} ELSE {})

math_floor(n, d, above) == n \div d

(* int(math.ceil(q)) of line 220 for the computed quotient q, which is n/d *)
(* or the next double above it.                                            *)
math_ceil(n, d, above) == ceil_div(n, d) + (IF above THEN 1 ELSE 0)

(* _number_of_reads_for_assembly lines 217-222.  ref_length is the summed  *)
(* length of the sequences of reference_fa (line 215); above is the        *)
(* outcome of the rounding of the quotient.                                *)
number_of_reads_for_assembly(ref_length, insert_size, total_bases, total_reads, coverage, above) ==
    LET padded == ref_length + 2 * insert_size
        wanted_bases == coverage * padded
        wanted_reads == math_ceil(wanted_bases * total_reads, total_bases, above)
    IN  round_even(wanted_reads)

NumIdle ==
    [ phase |-> "idle", ref_length |-> 0, insert_size |-> 0, total_bases |-> 0,
      total_reads |-> 0, coverage |-> 0, above |-> FALSE, wanted_reads |-> None,
      exc |-> "None" ]

-----------------------------------------------------------------------------

(* assembly_compare.update_flag: adds the comparator's tags to the flag    *)
(* it is given and returns it.                                             *)
update_flag(compare, flag) ==
    LET f1 == IF compare.ref_covered THEN add(flag, "assembled") ELSE flag
    IN  IF compare.unique THEN add(f1, "unique_contig") ELSE f1

RECURSIVE all_variants(_, _)
all_variants(table, j) ==
    IF j > Len(table) THEN <<>> ELSE table[j] \o all_variants(table, j + 1)

(* report.report_lines: one row per variant, or one row with nulls.        *)
report_rows(ref, flag, table_opt) ==
    LET vs == IF table_opt = None THEN <<>> ELSE all_variants(table_opt[1], 1)
        row(v) == [ref |-> ref, flag |-> to_bits(flag), var |-> v]
    IN  IF Len(vs) = 0
        THEN << row(<<".", ".", ".", ".", ".">>) >>
        ELSE [ i \in 1..Len(vs) |-> row(vs[i]) ]

-----------------------------------------------------------------------------
config == <<fail_file, clean, read_store>>
logv == <<log_fh, log, log_closes>>
results == <<status_flag, ref_sequence, assembled_ok, assembly, assembly_compare,
             assembly_variants, samtools_vars, report_lines>>
excv == <<exc, raised_in>>
sigv == <<signalled, exit_status>>
ParIdle == [phase |-> "idle"]

MaxObjects == 3

ObjectIds == 1..MaxObjects

(* A process in which no Cluster has been constructed yet: no handler of   *)
(* this module is installed (0 stands for no object).                      *)
ProcInit ==
    [ phase |-> "live", objects |-> <<>>, handler |-> 0, running |-> 0,
      fail_file |-> [c \in ObjectIds |-> None],
      log_fh |-> [c \in ObjectIds |-> "None"],
      ran |-> {}, files |-> {} ]

BamIdle == [phase |-> "idle"]

RepIdle == [phase |-> "idle"]

extrav == <<mapped_reads, reads_for_assembly, staged, waiting, attempt>>
purev == <<sub, num, par, bam, rep, proc>>

(* State after Cluster.__init__ with unittest = False.  If root_dir exists *)
(* the constructor has checked that the three input files are in it and    *)
(* that no read store was given; otherwise nothing is staged yet.          *)
Init ==
    /\ pc = "init"
    /\ fail_file \in {"None", FailMarker}
    /\ clean \in BOOLEAN
    /\ \E mode \in {"existing", "read_store", "no_store"} :
          /\ read_store = (mode = "read_store")
          /\ files = IF mode = "existing"
                     THEN {root_dir, all_reads1, all_reads2, references_fa}
                     ELSE {}
    /\ cwd = "original_dir"
    /\ log_fh = "None"
    /\ log = <<>>
    /\ log_closes = 0
    /\ atexit_registered = TRUE
    /\ status_flag = Flag
    /\ ref_sequence = "None"
    /\ assembled_ok = "unset"
    /\ assembly = None
    /\ assembly_compare = None
    /\ assembly_variants = None
    /\ samtools_vars = None
    /\ report_lines = None
    /\ exc = "None"
    /\ raised_in = "None"
    /\ signalled = FALSE
    /\ mapped_reads = None
    /\ reads_for_assembly = "unset"
    /\ staged = <<>>
    /\ waiting = "None"
    /\ attempt = "first"
    /\ sub = SubIdle
    /\ par = ParIdle
    /\ proc = ProcInit
    /\ bam = BamIdle
    /\ rep = RepIdle
    /\ num = NumIdle
    /\ exit_status = "None"
    /\ started = <<>>
    /\ completed = <<>>

RaiseInRun_swallowed(stage, kind) ==
    /\ exc' = kind
    /\ raised_in' = stage
    /\ pc' = "report"

(* An exception leaves _run(): run()'s except clause catches cluster.Error *)
(* only, any other class propagates to the caller of run() directly.       *)
RaiseInRun(stage, kind) ==
    /\ exc' = kind
    /\ raised_in' = stage
    /\ pc' = IF kind = "Error" THEN "handler" ELSE "raised"

(* An exception raised by run() before its try statement.                  *)
RaiseBeforeTry(stage, kind) ==
    /\ exc' = kind
    /\ raised_in' = stage
    /\ pc' = "raised"

after_choice_always_assembles(chosen) == "subsampling"

(* _run() lines 314-317: "if self.ref_sequence is None: ... else: ...".    *)
after_choice(chosen) == IF chosen = "None" THEN "else_branch" ELSE "subsampling"

choose_fail_flag_forgotten(flag) == flag

(* _run() line 315.                                                        *)
choose_fail_flag(flag) == add(flag, "ref_seq_choose_fail")

after_assembly_skips_analysis(ok) == IF ok THEN "report" ELSE "else_branch"

after_assembly_always_maps(ok) == "read_mapping"

(* _run() lines 351 and 428: "if self.assembled_ok: ... else: ...".        *)
after_assembly(ok) == IF ok THEN "read_mapping" ELSE "else_branch"

else_branch_flag_reset(flag) == {"assembly_fail"}

(* _run() line 430.                                                        *)
else_branch_flag_after_assembly_only(flag) ==
    IF ref_sequence = "None" THEN flag ELSE add(flag, "assembly_fail")

else_branch_flag(flag) == add(flag, "assembly_fail")

(* _make_reads_for_assembly lines 256-259: what a path is a symbolic link  *)
(* to, when the subsampling made links.                                    *)
link_target(filename) ==
    IF reads_for_assembly # "links" THEN {}
    ELSE IF filename = reads_for_assembly1 THEN {all_reads1}
    ELSE IF filename = reads_for_assembly2 THEN {all_reads2}
    ELSE {}

clean_file_follows_links(fs, filename) ==
    IF clean THEN fs \ ({filename} \cup link_target(filename)) ELSE fs

clean_file_unguarded(fs, filename) == fs \ {filename}

(* _clean_file, lines 178-181, on the file system: unlink only when        *)
(* self.clean is set.  os.unlink removes the name it is given; for a       *)
(* symbolic link that is the link, never its target.                       *)
clean_file(fs, filename) == IF clean THEN fs \ {filename} ELSE fs

run_bowtie2_reads_subsampled == <<reads_for_assembly1, reads_for_assembly2>>

(* _run() lines 355-356: the first two arguments of mapping.run_bowtie2.   *)
run_bowtie2_reads == <<all_reads1, all_reads2>>

mapping_flags_inverted(flag, asm) ==
    LET f1 == IF asm.has_contigs_on_both_strands
              THEN add(flag, "hit_both_strands") ELSE flag
    IN  IF asm.scaff_graph_ok THEN add(f1, "scaffold_graph_bad") ELSE f1

(* _run() lines 368-374: the two tags read off the assembly object once    *)
(* the mapping has returned.                                               *)
mapping_flags(flag, asm) ==
    LET f1 == IF asm.has_contigs_on_both_strands
              THEN add(flag, "hit_both_strands") ELSE flag
    IN  IF ~asm.scaff_graph_ok THEN add(f1, "scaffold_graph_bad") ELSE f1

collapsed_repeat_flag_always(flag, in_coords) ==
    add(flag, "variants_suggest_collapsed_repeat")

(* _run() lines 426-427.                                                   *)
collapsed_repeat_flag(flag, in_coords) ==
    IF in_coords THEN add(flag, "variants_suggest_collapsed_repeat") ELSE flag

clean_file_log(l, filename) ==
    IF clean THEN Append(l, "Deleting file " \o filename) ELSE l

get_reads == [fn |-> "get_reads", args |-> <<"name", all_reads1, all_reads2>>]

write_seqs_to_fasta ==
    [fn |-> "write_seqs_to_fasta", args |-> <<references_fa, "reference_names">>]

staging_calls_fasta_first == <<write_seqs_to_fasta, get_reads>>

(* _set_up_input_files lines 174-175: the two collaborator calls.          *)
staging_calls == <<get_reads, write_seqs_to_fasta>>

existing_dir_check_skipped(store) == "ok"

(* _input_files_exist line 157: assert self.read_store is None.            *)
existing_dir_check(store) == IF store THEN "AssertionError" ELSE "ok"

(* run() line 263 with _set_up_input_files and _input_files_exist: the     *)
(* first half of input staging, completed by the check of lines 265-267.   *)
(* After os.mkdir the read store and the reference data are called; what   *)
(* they leave on disk is theirs to decide ("partly_staged": no             *)
(* references.fa), and the read store may raise ("store_fails").           *)
SetUpInputFiles ==
    /\ pc = "init"
    /\ started' = Append(started, "input_staging")
    /\ IF root_dir \in files
       THEN IF existing_dir_check(read_store) # "ok"
            THEN /\ RaiseBeforeTry("input_staging", "Other")
                 /\ UNCHANGED <<files, staged>>
            ELSE IF {all_reads1, all_reads2, references_fa} \subseteq files
                 THEN /\ pc' = "check_inputs"
                      /\ UNCHANGED <<files, staged, excv>>
                 ELSE /\ RaiseBeforeTry("input_staging", "Error")
                      /\ UNCHANGED <<files, staged>>
       ELSE IF ~read_store
            THEN /\ RaiseBeforeTry("input_staging", "Other")
                 /\ UNCHANGED <<files, staged>>
            ELSE \E outcome \in {"staged", "partly_staged", "mkdir_fails", "store_fails"} :
                   CASE outcome = "staged" ->
                          /\ files' = files \cup {root_dir, all_reads1, all_reads2, references_fa}
                          /\ staged' = staged \o staging_calls
                          /\ pc' = "check_inputs"
                          /\ UNCHANGED excv
                     [] outcome = "partly_staged" ->
                          /\ files' = files \cup {root_dir, all_reads1, all_reads2}
                          /\ staged' = staged \o staging_calls
                          /\ pc' = "check_inputs"
                          /\ UNCHANGED excv
                     [] outcome = "mkdir_fails" ->
                          /\ RaiseBeforeTry("input_staging", "Error")
                          /\ UNCHANGED <<files, staged>>
                     [] outcome = "store_fails" ->
                          /\ files' = files \cup {root_dir}
                          /\ staged' = staged \o <<staging_calls[1]>>
                          /\ RaiseBeforeTry("input_staging", "Other")
    /\ UNCHANGED <<purev, mapped_reads, reads_for_assembly, waiting, attempt, config, cwd, logv,
                   atexit_registered, results, sigv, completed>>

(* run() lines 265-267.                                                    *)
CheckInputs ==
    /\ pc = "check_inputs"
    /\ IF {all_reads1, all_reads2, references_fa} \subseteq files
       THEN /\ pc' = "open_log"
            /\ completed' = Append(completed, "input_staging")
            /\ UNCHANGED excv
       ELSE /\ RaiseBeforeTry("input_staging", "Error")
            /\ UNCHANGED completed
    /\ UNCHANGED <<purev, extrav, config, files, cwd, logv, atexit_registered, results, sigv,
                   started>>

(* run() lines 269-275: open the log, change into root_dir.                *)
OpenLog ==
    /\ pc = "open_log"
    /\ log_fh' = "open"
    /\ files' = files \cup {logfile}
    /\ cwd' = root_dir
    /\ pc' = "reference_choice"
    /\ UNCHANGED <<purev, extrav, config, log, log_closes, atexit_registered, results, excv, sigv,
                   started, completed>>


(* _run() lines 297-316: choose the reference, delete references.fa and    *)
(* its index, and take the no-reference branch when nothing was chosen.    *)
ReferenceChoice ==
    /\ pc = "reference_choice"
    /\ started' = Append(started, "reference_choice")
    /\ \E outcome \in {"returns"} \cup ExcKinds, chosen \in {"None"} \cup RefNames,
          fai \in BOOLEAN :
          LET log1 == log \o <<"LOG FILE START", "Choosing best reference sequence:">>
              files1 == files \cup (IF chosen = "None" THEN {} ELSE {reference_fa})
                              \cup (IF fai THEN {references_fai} ELSE {})
              log2 == clean_file_log(clean_file_log(log1, references_fa), references_fai)
          IN  IF outcome \in ExcKinds
              THEN (* best_seq raises *)
                   /\ RaiseInRun("reference_choice", outcome)
                   /\ log' = log1
                   /\ UNCHANGED <<files, results, completed>>
              ELSE IF clean /\ references_fai \notin files1
              THEN (* os.unlink of the missing index raises FileNotFoundError *)
                   /\ RaiseInRun("reference_choice", "Other")
                   /\ ref_sequence' = chosen
                   /\ files' = files1 \ {references_fa}
                   /\ log' = log2
                   /\ UNCHANGED <<status_flag, assembled_ok, assembly, assembly_compare,
                                  assembly_variants, samtools_vars, report_lines, completed>>
              ELSE /\ ref_sequence' = chosen
                   /\ files' = clean_file(clean_file(files1, references_fa),
                                           references_fai)
                   /\ log' = log2
                   /\ completed' = Append(completed, "reference_choice")
                   /\ pc' = after_choice(chosen)
                   /\ IF chosen = "None"
                      THEN /\ status_flag' = choose_fail_flag(status_flag)
                           /\ assembled_ok' = "False"
                      ELSE UNCHANGED <<status_flag, assembled_ok>>
                   /\ UNCHANGED <<assembly, assembly_compare, assembly_variants,
                                  samtools_vars, report_lines, excv>>
    /\ UNCHANGED <<purev, extrav, config, cwd, log_fh, log_closes, atexit_registered, sigv>>

(* _run() lines 318-320: _number_of_reads_for_assembly and                 *)
(* _make_reads_for_assembly.  "Error" is the read without a mate (246),    *)
(* "Other" the failed assertion on the reference length (216).             *)
Subsampling ==
    /\ pc = "subsampling"
    /\ started' = Append(started, "subsampling")
    /\ \E outcome \in {"sampled", "linked"} \cup ExcKinds :
          CASE outcome \in {"sampled", "linked"} ->
                 /\ files' = files \cup {reads_for_assembly1, reads_for_assembly2}
                 /\ reads_for_assembly' = IF outcome = "sampled" THEN "subset"
                                                                 ELSE "links"
                 /\ log' = Append(log, "Using reads for assembly")
                 /\ completed' = Append(completed, "subsampling")
                 /\ pc' = "assembly"
                 /\ UNCHANGED excv
            [] outcome = "Error" ->
                 /\ files' = files \cup {reads_for_assembly1, reads_for_assembly2}
                 /\ reads_for_assembly' = "subset"
                 /\ RaiseInRun("subsampling", "Error")
                 /\ UNCHANGED <<log, completed>>
            [] outcome = "Other" ->
                 /\ RaiseInRun("subsampling", "Other")
                 /\ UNCHANGED <<files, reads_for_assembly, log, completed>>
    /\ UNCHANGED <<purev, mapped_reads, staged, waiting, attempt, config, cwd, log_fh, log_closes,
                   atexit_registered, results, sigv>>

(* _run() lines 321-349: the assembler, then the deletion of the           *)
(* subsampled reads and of the Assembly directory.  The assembler is given *)
(* the paths of assembly.fa and of the BAM file (lines 328-330) and may    *)
(* leave a BAM file behind.                                                *)
Assembly ==
    /\ pc = "assembly"
    /\ started' = Append(started, "assembly")
    /\ \E outcome \in {"returns"} \cup ExcKinds, ok \in BOOLEAN,
          both \in BOOLEAN, scaff \in BOOLEAN, made_bam \in BOOLEAN :
          LET log1 == Append(log, "Assembling reads:")
              files1 == files \cup {assembly_dir}
                              \cup (IF ok THEN {final_assembly_fa} ELSE {})
                              \cup (IF made_bam THEN {final_assembly_bam} ELSE {})
              files2 == clean_file(clean_file(files1, reads_for_assembly1),
                                   reads_for_assembly2)
              log2 == clean_file_log(clean_file_log(log1, reads_for_assembly1),
                                     reads_for_assembly2)
          IN  /\ IF outcome \in ExcKinds
                 THEN /\ RaiseInRun("assembly", outcome)
                      /\ log' = log1
                      /\ UNCHANGED <<files, assembly, assembled_ok, completed>>
                 ELSE /\ assembly' = Some([assembled_ok |-> ok,
                                           has_contigs_on_both_strands |-> both,
                                           scaff_graph_ok |-> scaff])
                      /\ assembled_ok' = IF ok THEN "True" ELSE "False"
                      /\ files' = IF clean THEN files2 \ {assembly_dir} ELSE files2
                      /\ log' = IF clean
                                THEN Append(log2, "Deleting Assembly directory")
                                ELSE log2
                      /\ completed' = Append(completed, "assembly")
                      /\ pc' = after_assembly(ok)
                      /\ UNCHANGED excv
    /\ UNCHANGED <<purev, extrav, config, cwd, log_fh, log_closes, atexit_registered, status_flag,
                   ref_sequence, assembly_compare, assembly_variants, samtools_vars,
                   report_lines, sigv>>

(* _run() lines 351-374: map all reads to the assembly, then the two       *)
(* informational tags taken from the assembly object.                      *)
ReadMapping ==
    /\ pc = "read_mapping"
    /\ started' = Append(started, "read_mapping")
    /\ mapped_reads' = Some(run_bowtie2_reads)
    /\ \E outcome \in {"returns"} \cup ExcKinds :
          LET log1 == Append(log, "Assembly was successful. Mapping reads to assembly:")
          IN  IF outcome \in ExcKinds
              THEN /\ RaiseInRun("read_mapping", outcome)
                   /\ log' = log1
                   /\ UNCHANGED <<files, status_flag, completed>>
              ELSE /\ files' = files \cup {final_assembly_bam, "assembly.reads_mapped.bam.bai"}
                   /\ status_flag' = mapping_flags(status_flag, assembly[1])
                   /\ log' = Append(log1, "Making and checking scaffold graph")
                   /\ completed' = Append(completed, "read_mapping")
                   /\ pc' = "assembly_comparison"
                   /\ UNCHANGED excv
    /\ UNCHANGED <<purev, reads_for_assembly, staged, waiting, attempt, config, cwd, log_fh, log_closes,
                   atexit_registered, ref_sequence, assembled_ok, assembly,
                   assembly_compare, assembly_variants, samtools_vars, report_lines,
                   sigv>>

(* _run() lines 376-392: compare the assembly with the reference and       *)
(* replace the flag by the one update_flag returns.                        *)
AssemblyComparisonOver(CoordSets) ==
    /\ pc = "assembly_comparison"
    /\ started' = Append(started, "assembly_comparison")
    /\ \E outcome \in {"returns"} \cup ExcKinds, covered \in BOOLEAN, uniq \in BOOLEAN,
          coords \in CoordSets :
          LET compare == [ref_covered |-> covered, unique |-> uniq,
                          assembly_match_coords |-> coords]
          IN  IF outcome \in ExcKinds
              THEN /\ RaiseInRun("assembly_comparison", outcome)
                   /\ UNCHANGED <<files, status_flag, assembly_compare, completed>>
              ELSE /\ assembly_compare' = Some(compare)
                   /\ files' = files \cup {"assembly_compare.nucmer.coords",
                                           "assembly_compare.nucmer.coords.snps"}
                   /\ status_flag' = update_flag(compare, status_flag)
                   /\ completed' = Append(completed, "assembly_comparison")
                   /\ pc' = "variant_extraction"
                   /\ UNCHANGED excv
    /\ log' = Append(log, "Comparing assembly against reference sequence")
    /\ UNCHANGED <<purev, extrav, config, cwd, log_fh, log_closes, atexit_registered, ref_sequence,
                   assembled_ok, assembly, assembly_variants, samtools_vars,
                   report_lines, sigv>>

AssemblyComparison == AssemblyComparisonOver(RunCoordSets)

(* _run() lines 394-405: get the variants and set                          *)
(* has_nonsynonymous_variants from their consequence classes.              *)
VariantExtractionOver(Tables) ==
    /\ pc = "variant_extraction"
    /\ started' = Append(started, "variant_extraction")
    /\ \E outcome \in {"returns"} \cup ExcKinds, table \in Tables :
          IF outcome \in ExcKinds
          THEN /\ RaiseInRun("variant_extraction", outcome)
               /\ UNCHANGED <<status_flag, assembly_variants, completed>>
          ELSE /\ assembly_variants' = Some(table)
               /\ status_flag' = flag_after_variants(status_flag, table)
               /\ completed' = Append(completed, "variant_extraction")
               /\ pc' = "variant_calling"
               /\ UNCHANGED excv
    /\ UNCHANGED <<purev, extrav, config, files, cwd, logv, atexit_registered, ref_sequence,
                   assembled_ok, assembly, assembly_compare, samtools_vars,
                   report_lines, sigv>>

VariantExtraction == VariantExtractionOver(RunTables)

(* _run() lines 408-427: call variants, read the depths, and set           *)
(* variants_suggest_collapsed_repeat when a call lies in matched coords.   *)
(* A failure is the caller's run() failing or a missing depth or VCF file. *)
VariantCallingOver(CallSets) ==
    /\ pc = "variant_calling"
    /\ started' = Append(started, "variant_calling")
    /\ \E outcome \in {"returns"} \cup ExcKinds, calls \in CallSets :
          IF outcome \in ExcKinds
          THEN /\ RaiseInRun("variant_calling", outcome)
               /\ UNCHANGED <<files, status_flag, samtools_vars, completed>>
          ELSE /\ samtools_vars' = Some([vcf_file |-> calls])
               /\ files' = files \cup {final_assembly_vcf, final_assembly_read_depths,
                                       "assembly.reads_mapped.bam.read_depths.gz.tbi",
                                       "assembly.fa.fai"}
               /\ status_flag' =
                     collapsed_repeat_flag(status_flag,
                         variants_in_coords(assembly_compare[1].assembly_match_coords,
                                            calls))
               /\ completed' = Append(completed, "variant_calling")
               /\ pc' = "report"
               /\ UNCHANGED excv
    /\ log' = Append(log, "Calling variants with samtools:")
    /\ UNCHANGED <<purev, extrav, config, cwd, log_fh, log_closes, atexit_registered, ref_sequence,
                   assembled_ok, assembly, assembly_compare, assembly_variants,
                   report_lines, sigv>>

VariantCalling == VariantCallingOver(RunCallSets)

(* _run() lines 428-430: the else branch of "if self.assembled_ok".        *)
ElseBranch ==
    /\ pc = "else_branch"
    /\ log' = Append(log, "Assembly failed")
    /\ status_flag' = else_branch_flag(status_flag)
    /\ pc' = "report"
    /\ UNCHANGED <<purev, extrav, config, files, cwd, log_fh, log_closes, atexit_registered,
                   ref_sequence, assembled_ok, assembly, assembly_compare,
                   assembly_variants, samtools_vars, report_lines, excv, sigv,
                   started, completed>>

report_lines_of_new_flag == report_rows(ref_sequence, Flag, assembly_variants)

(* _run() line 434: report.report_lines(self) reads the object as it is    *)
(* when the call is made.                                                  *)
report_lines_of_self == report_rows(ref_sequence, status_flag, assembly_variants)

(* _run() lines 433-434.                                                   *)
Report ==
    /\ pc = "report"
    /\ started' = Append(started, "report")
    /\ completed' = Append(completed, "report")
    /\ log' = Append(log, "Making report lines")
    /\ report_lines' = Some(report_lines_of_self)
    /\ pc' = "cleanup"
    /\ UNCHANGED <<purev, extrav, config, files, cwd, log_fh, log_closes, atexit_registered,
                   status_flag, ref_sequence, assembled_ok, assembly, assembly_compare,
                   assembly_variants, samtools_vars, excv, sigv>>

(* _run() lines 435-436 with _clean: delete the listed files unless        *)
(* cleaning is off, then unregister the atexit hook.                       *)
Cleanup ==
    /\ pc = "cleanup"
    /\ started' = Append(started, "cleanup")
    /\ completed' = Append(completed, "cleanup")
    /\ IF ~clean
       THEN /\ log' = Append(log, "not deleting anything because --noclean used")
            /\ UNCHANGED files
       ELSE /\ files' = files \ to_delete
            /\ log' = Append(log, "Deleting files")
    /\ atexit_registered' = FALSE
    /\ pc' = "epilogue"
    /\ UNCHANGED <<purev, extrav, config, cwd, log_fh, log_closes, results, excv, sigv>>

(* run() lines 286-292: back to the original directory, last log lines,    *)
(* close the log.                                                          *)
Epilogue ==
    /\ pc = "epilogue"
    /\ cwd' = "original_dir"
    /\ log' = log \o <<"Finished", "LOG FILE END">>
    /\ log_fh' = "closed"
    /\ log_closes' = log_closes + 1
    /\ pc' = "epilogue_closed"
    /\ UNCHANGED <<purev, extrav, config, files, atexit_registered, results, excv, sigv,
                   started, completed>>

(* run() line 293, a statement of its own: self.log_fh = None, and run()   *)
(* returns.                                                                *)
EpilogueReturn ==
    /\ pc = "epilogue_closed"
    /\ log_fh' = "None"
    /\ pc' = "returned"
    /\ UNCHANGED <<purev, extrav, config, files, cwd, log, log_closes,
                   atexit_registered, results, excv, sigv, started, completed>>

Handler_writes_fail_file ==
    /\ pc = "handler"
    /\ cwd' = "original_dir"
    /\ log' = Append(log, "Error running cluster! Error was:")
    /\ log_fh' = "closed"
    /\ log_closes' = log_closes + 1
    /\ files' = IF fail_file # "None" THEN files \cup {fail_file} ELSE files
    /\ pc' = "handler_closed"
    /\ UNCHANGED <<purev, extrav, config, atexit_registered, results, excv, sigv,
                   started, completed>>

(* run() lines 279-282: the except clause for cluster.Error, up to the     *)
(* close of the log.                                                       *)
Handler ==
    /\ pc = "handler"
    /\ cwd' = "original_dir"
    /\ log' = Append(log, "Error running cluster! Error was:")
    /\ log_fh' = "closed"
    /\ log_closes' = log_closes + 1
    /\ pc' = "handler_closed"
    /\ UNCHANGED <<purev, extrav, config, files, atexit_registered, results, excv, sigv,
                   started, completed>>

(* run() lines 283-284: self.log_fh = None, then raise Error.              *)
HandlerRaise ==
    /\ pc = "handler_closed"
    /\ log_fh' = "None"
    /\ exc' = "Error"
    /\ pc' = "raised"
    /\ UNCHANGED <<purev, extrav, config, files, cwd, log, log_closes,
                   atexit_registered, results, raised_in, sigv, started, completed>>


(* _receive_signal, lines 145-153, as installed by __init__ (133-136):     *)
(* close the log if log_fh is not None, write the fail file if one is      *)
(* configured, sys.exit(1).  The handler runs between any two statements   *)
(* of the main program, also between a close of the log and the            *)
(* assignment of None that follows it.  SystemExit is no cluster.Error: it passes run()'s except  *)
(* clause and ends the process.                                            *)
ReceiveSignal ==
    /\ pc \notin {"returned", "raised", "exited", "dead"}
    /\ \E signum \in wanted_signals :
          /\ log_fh' = "None"
          /\ log_closes' = IF log_fh # "None" THEN log_closes + 1 ELSE log_closes
          /\ files' = IF fail_file # "None" THEN files \cup {fail_file} ELSE files
          /\ signalled' = TRUE
          /\ exit_status' = "1"
          /\ exc' = "SystemExit"
          /\ pc' = "exited"
    /\ UNCHANGED <<purev, extrav, config, cwd, log, atexit_registered, results, raised_in,
                   started, completed>>

(* The same handler when the signal arrives while os.mkdir runs inside the *)
(* try statement of _set_up_input_files (lines 170-173): the bare except   *)
(* catches the SystemExit of sys.exit(1) and raises Error instead, which   *)
(* run() passes to its caller; the process does not exit.                  *)
ReceiveSignalInMkdir ==
    /\ pc = "init"
    /\ root_dir \notin files
    /\ read_store
    /\ \E signum \in wanted_signals :
          /\ started' = Append(started, "input_staging")
          /\ files' = (files \cup {root_dir})
                         \cup (IF fail_file # "None" THEN {fail_file} ELSE {})
          /\ signalled' = TRUE
          /\ RaiseBeforeTry("input_staging", "Error")
    /\ UNCHANGED <<purev, extrav, config, cwd, logv, atexit_registered, results, exit_status, completed>>

(* Interpreter exit: _atexit (lines 139-142) runs if it is still           *)
(* registered and closes a log handle that is still open.                  *)
AtExit ==
    /\ pc \in {"returned", "raised", "exited"}
    /\ IF atexit_registered /\ log_fh # "None"
       THEN /\ log_fh' = "None"
            /\ log_closes' = log_closes + 1
       ELSE UNCHANGED <<log_fh, log_closes>>
    /\ pc' = "dead"
    /\ UNCHANGED <<purev, extrav, config, files, cwd, log, atexit_registered, results, excv, sigv,
                   started, completed>>

Next ==
    \/ SetUpInputFiles
    \/ CheckInputs
    \/ OpenLog
    \/ ReferenceChoice
    \/ Subsampling
    \/ Assembly
    \/ ReadMapping
    \/ AssemblyComparison
    \/ VariantExtraction
    \/ VariantCalling
    \/ ElseBranch
    \/ Report
    \/ Cleanup
    \/ Epilogue
    \/ EpilogueReturn
    \/ Handler
    \/ HandlerRaise
    \/ ReceiveSignal
    \/ ReceiveSignalInMkdir
    \/ AtExit

Spec == Init /\ [][Next]_vars

(* run() is called a second time on the same object, after the first call  *)
(* returned or raised: the object and the file system are as the first     *)
(* call left them.                                                         *)
RunAgain ==
    /\ pc \in {"returned", "raised"}
    /\ attempt = "first"
    /\ read_store
    /\ attempt' = IF root_dir \in files THEN "second_in_place" ELSE "second_fresh"
    /\ pc' = "init"
    /\ started' = <<>>
    /\ completed' = <<>>
    /\ exc' = "None"
    /\ raised_in' = "None"
    /\ UNCHANGED <<purev, mapped_reads, reads_for_assembly, staged, waiting, config, files,
                   cwd, logv, atexit_registered, results, sigv>>

(* A retry over the same directory after run() returned: a new Cluster is  *)
(* constructed on root_dir without a read store, and its constructor       *)
(* (lines 62-63) checks the input files.                                   *)
Retry ==
    /\ pc = "returned"
    /\ attempt = "first"
    /\ attempt' = IF {all_reads1, all_reads2, references_fa} \subseteq files
                  THEN "retry_constructed" ELSE "retry_Error"
    /\ UNCHANGED <<purev, mapped_reads, reads_for_assembly, staged, waiting, config, files,
                   cwd, logv, atexit_registered, results, excv, sigv, pc, started,
                   completed>>

NextRerun ==
    \/ SetUpInputFiles
    \/ CheckInputs
    \/ OpenLog
    \/ ReferenceChoice
    \/ Subsampling
    \/ Assembly
    \/ ReadMapping
    \/ AssemblyComparison
    \/ VariantExtraction
    \/ VariantCalling
    \/ ElseBranch
    \/ Report
    \/ Cleanup
    \/ Epilogue
    \/ EpilogueReturn
    \/ Handler
    \/ HandlerRaise
    \/ ReceiveSignal
    \/ ReceiveSignalInMkdir
    \/ AtExit
    \/ RunAgain
    \/ Retry

SpecRerun == Init /\ [][NextRerun]_vars

(* The stages of _run() that run external programs (bowtie2 and samtools   *)
(* in the chooser and the mapping, the assembler, nucmer, samtools and     *)
(* bcftools in the variant calling).                                       *)
ToolStages ==
    {"reference_choice", "assembly", "read_mapping", "assembly_comparison",
     "variant_calling"}

tool_gives_up(stage) == "report"

(* _run() lines 296-436 contain no timeout and no watchdog: while an       *)
(* external program has not returned, the run stays in the call.           *)
tool_never_returns(stage) == "blocked"

(* The external program of a stage does not return.                        *)
ToolHangs ==
    /\ pc \in ToolStages
    /\ waiting' = pc
    /\ started' = Append(started, pc)
    /\ pc' = tool_never_returns(pc)
    /\ UNCHANGED <<purev, mapped_reads, reads_for_assembly, staged, attempt, config, files, cwd,
                   logv, atexit_registered, results, excv, sigv, completed>>

(* The steps of run() itself, as opposed to signals, hanging programs and  *)
(* the exit of the interpreter.                                            *)
RunStep ==
    \/ SetUpInputFiles
    \/ CheckInputs
    \/ OpenLog
    \/ ReferenceChoice
    \/ Subsampling
    \/ Assembly
    \/ ReadMapping
    \/ AssemblyComparison
    \/ VariantExtraction
    \/ VariantCalling
    \/ ElseBranch
    \/ Report
    \/ Cleanup
    \/ Epilogue
    \/ EpilogueReturn
    \/ Handler
    \/ HandlerRaise

NextTerm ==
    \/ SetUpInputFiles
    \/ CheckInputs
    \/ OpenLog
    \/ ReferenceChoice
    \/ Subsampling
    \/ Assembly
    \/ ReadMapping
    \/ AssemblyComparison
    \/ VariantExtraction
    \/ VariantCalling
    \/ ElseBranch
    \/ Report
    \/ Cleanup
    \/ Epilogue
    \/ EpilogueReturn
    \/ Handler
    \/ HandlerRaise
    \/ ReceiveSignal
    \/ ReceiveSignalInMkdir
    \/ AtExit
    \/ ToolHangs

(* The interpreter goes on executing run() as long as run() has a next     *)
(* statement to execute: weak fairness of the steps of run().  Signals,    *)
(* hanging programs and the end of the process are not forced.             *)
SpecTerm == Init /\ [][NextTerm]_vars /\ WF_vars(RunStep)


(* The variant-extraction stage over every table within the bounds, after  *)
(* a run without failure, signal or cleaning up to the comparison.         *)
QuietStep ==
    /\ fail_file = "None"
    /\ ~clean
    /\ ~read_store
    /\ exc' = "None"
    /\ pc' # "else_branch"
    /\ references_fai \notin files'
    /\ status_flag' \subseteq {"hit_both_strands"}
    /\ reads_for_assembly' # "links"
    /\ pc' = "read_mapping" => final_assembly_bam \notin files'
    /\ assembly_compare' # None => assembly_compare'[1].assembly_match_coords = {}

NextVar ==
    \/ /\ \/ SetUpInputFiles
          \/ CheckInputs
          \/ OpenLog
          \/ ReferenceChoice
          \/ Subsampling
          \/ Assembly
          \/ ReadMapping
          \/ AssemblyComparison
       /\ QuietStep
    \/ VariantExtractionOver(BoundedTables)

SpecVar == Init /\ [][NextVar]_vars

(* The runs of one configuration (no fail file, no cleaning, inputs        *)
(* already staged) in which no stage raises and no informational tag is    *)
(* set, with every set of matched coordinates and every set of calls up    *)
(* to MaxPos.                                                              *)
CallsStep ==
    /\ fail_file = "None"
    /\ ~clean
    /\ ~read_store
    /\ exc' = "None"
    /\ references_fai \notin files'
    /\ reads_for_assembly' # "links"
    /\ status_flag' \subseteq {"variants_suggest_collapsed_repeat", "assembly_fail",
                               "ref_seq_choose_fail"}

NextCalls ==
    \/ SetUpInputFiles /\ CallsStep
    \/ CheckInputs /\ CallsStep
    \/ OpenLog /\ CallsStep
    \/ ReferenceChoice /\ CallsStep
    \/ Subsampling /\ CallsStep
    \/ Assembly /\ CallsStep
    \/ ReadMapping /\ CallsStep
    \/ AssemblyComparisonOver(BoundedPositionSets) /\ CallsStep
    \/ VariantExtraction /\ CallsStep
    \/ VariantCallingOver(BoundedPositionSets) /\ CallsStep
    \/ ElseBranch /\ CallsStep
    \/ Report /\ CallsStep
    \/ Cleanup /\ CallsStep
    \/ Epilogue /\ CallsStep
    \/ EpilogueReturn /\ CallsStep

SpecCalls == Init /\ [][NextCalls]_vars

-----------------------------------------------------------------------------
(* The two static methods on their own: the object is as constructed and   *)
(* stays so.                                                               *)

runv == <<pc, config, files, cwd, logv, atexit_registered, results, excv, sigv,
          started, completed, extrav>>

InitPure ==
    /\ Init
    /\ fail_file = "None"
    /\ ~clean
    /\ ~read_store
    /\ files = {}

(* A call of _make_reads_for_assembly as _run makes it (line 319), with    *)
(* any two read files of up to MaxReads records, any counts up to MaxCount *)
(* and any configured random_seed.                                         *)
SubCall ==
    /\ sub.phase = "idle"
    /\ \E wanted \in 0..MaxCount, total \in 0..MaxCount, n1 \in 0..MaxReads,
          n2 \in 0..MaxReads, self_seed \in Seeds :
          sub' = make_reads_entry(wanted, total, ReadsFile(n1, 1), ReadsFile(n2, 2),
                                  self_seed, 1, None)
    /\ UNCHANGED <<runv, num, par, bam, rep, proc>>

(* One iteration of the loop of lines 240-252: take the next read of file  *)
(* 2, or close both outputs and raise Error if there is none; draw; write  *)
(* both reads if the draw is at most percent_wanted, which is              *)
(* 100 * number_of_wanted_reads / total_reads.                             *)
SubStep ==
    /\ sub.phase = "loop"
    /\ sub.i <= Len(sub.reads_in1)
    /\ IF sub.i > Len(sub.reads_in2)
       THEN sub' = no_mate_found(sub)
       ELSE \E r \in 0..100 :
               /\ sub.random_seed # None
                     => r = randint(sub.random_seed[1], sub.draws + 1)
               /\ sub' = LET s1 == [sub EXCEPT !.draws = @ + 1, !.i = @ + 1]
                         IN  IF r * sub.total_reads <= 100 * sub.number_of_wanted_reads
                             THEN write_pair(s1, sub.reads_in1[sub.i],
                                             sub.reads_in2[sub.i])
                             ELSE s1
    /\ UNCHANGED <<runv, num, par, bam, rep, proc>>

(* Lines 253-255: file 1 is exhausted; close both outputs and return       *)
(* reads_written.                                                          *)
SubReturn ==
    /\ sub.phase = "loop"
    /\ sub.i > Len(sub.reads_in1)
    /\ sub' = [sub EXCEPT !.open = {}, !.ret = Some(sub.reads_written),
                          !.phase = "returned"]
    /\ UNCHANGED <<runv, num, par, bam, rep, proc>>

(* A second execution with the same inputs, counts and configured seed,    *)
(* writing fresh output files; the first execution's result is kept.       *)
SubAgain ==
    /\ sub.phase \in {"returned", "raised"}
    /\ sub.execution = 1
    /\ sub' = make_reads_entry(sub.number_of_wanted_reads, sub.total_reads,
                               sub.reads_in1, sub.reads_in2, sub.self_random_seed,
                               2, Some(sub_result(sub)))
    /\ UNCHANGED <<runv, num, par, bam, rep, proc>>

NextSub ==
    \/ SubCall
    \/ SubStep
    \/ SubReturn
    \/ SubAgain

SpecSub == InitPure /\ [][NextSub]_vars

(* A call of _number_of_reads_for_assembly: a reference of any summed      *)
(* length up to MaxRefLen (0 is a reference file without sequence).        *)
NumCall ==
    /\ num.phase = "idle"
    /\ \E l \in 0..MaxRefLen, ins \in 0..MaxInsert, bases \in 1..MaxBases,
          reads \in 1..MaxCount, cov \in 0..MaxCoverage :
          num' = [NumIdle EXCEPT !.phase = "called", !.ref_length = l,
                                 !.insert_size = ins, !.total_bases = bases,
                                 !.total_reads = reads, !.coverage = cov]
    /\ UNCHANGED <<runv, sub, par, bam, rep, proc>>

(* Lines 214-222: the assertion on the reference length, then the value.   *)
NumReturn ==
    /\ num.phase = "called"
    /\ IF num.ref_length > 0
       THEN \E above \in rounds_above(
                             num.coverage * (num.ref_length + 2 * num.insert_size),
                             num.total_bases, num.total_reads) :
               num' = [num EXCEPT !.phase = "returned", !.above = above,
                                  !.wanted_reads =
                                      Some(number_of_reads_for_assembly(num.ref_length,
                                               num.insert_size, num.total_bases,
                                               num.total_reads, num.coverage, above))]
       ELSE num' = [num EXCEPT !.phase = "raised", !.exc = "AssertionError"]
    /\ UNCHANGED <<runv, sub, par, bam, rep, proc>>

NextNum ==
    \/ NumCall
    \/ NumReturn

SpecNum == InitPure /\ [][NextNum]_vars

-----------------------------------------------------------------------------
(* Several Cluster objects in one process.  signal.signal replaces the     *)
(* process's handler of a signal, so the handler in force is the bound     *)
(* method of the object whose constructor ran last.                        *)

(* __init__ lines 134-136: signal.signal(s, self._receive_signal).         *)
install_handler(current, c) == c

(* Cluster.__init__ for a new object, with no fail file, a fail file of    *)
(* its own or the one the driver gives to every cluster.                   *)
ProcConstruct ==
    /\ proc.phase = "live"
    /\ proc.running = 0
    /\ \E c \in ObjectIds, marker \in {"None", "own", "shared"} :
          /\ c \notin Range(proc.objects)
          /\ proc' = [proc EXCEPT
                        !.objects = Append(@, c),
                        !.handler = install_handler(@, c),
                        !.fail_file[c] = IF marker = "None" THEN None
                                         ELSE IF marker = "own" THEN Some(<<"fail", c>>)
                                         ELSE Some(<<"fail", 0>>)]
    /\ UNCHANGED <<runv, sub, num, par, bam, rep>>

(* run() of a constructed object up to the call of _run(): its log is open. *)
ProcRun ==
    /\ proc.phase = "live"
    /\ proc.running = 0
    /\ \E c \in Range(proc.objects) \ proc.ran :
          proc' = [proc EXCEPT !.running = c, !.log_fh[c] = "open",
                               !.ran = @ \cup {c}]
    /\ UNCHANGED <<runv, sub, num, par, bam, rep>>

(* run() of the running object comes to its end and closes its log.        *)
ProcReturn ==
    /\ proc.phase = "live"
    /\ proc.running # 0
    /\ proc' = [proc EXCEPT !.running = 0, !.log_fh[proc.running] = "None"]
    /\ UNCHANGED <<runv, sub, num, par, bam, rep>>

(* A termination signal: the handler in force is _receive_signal of the    *)
(* object that installed it (lines 145-153), acting on that object's       *)
(* log_fh and fail_file, then sys.exit(1).                                 *)
ProcSignal ==
    /\ proc.phase = "live"
    /\ proc.handler # 0
    /\ LET h == proc.handler
       IN  proc' = [proc EXCEPT !.phase = "exited",
                                !.log_fh[h] = "None",
                                !.files = @ \cup Range(proc.fail_file[h])]
    /\ UNCHANGED <<runv, sub, num, par, bam, rep>>

(* Interpreter exit: the _atexit hook of every object still registered     *)
(* closes that object's log (lines 139-142).                               *)
ProcAtExit ==
    /\ proc.phase = "exited"
    /\ proc' = [proc EXCEPT !.phase = "dead",
                            !.log_fh = [c \in ObjectIds |-> "None"]]
    /\ UNCHANGED <<runv, sub, num, par, bam, rep>>

NextProc ==
    \/ ProcConstruct
    \/ ProcRun
    \/ ProcReturn
    \/ ProcSignal
    \/ ProcAtExit

SpecProc == InitPure /\ [][NextProc]_vars

-----------------------------------------------------------------------------
(* Two clusters run in parallel, each in a process of its own, with the    *)
(* paths each of them creates, reads, writes or deletes.  A path is the    *)
(* sequence of its components below the file system root.                  *)

MaxDepth == 2

DirNames == {"a", "b"}

ClusterIds == {1, 2}

(* The values of os.path.abspath(root_dir), line 51.                       *)
Dirs == UNION { [1..n -> DirNames] : n \in 1..MaxDepth }

(* A log file or fail marker configured from outside.                      *)
Outside(name) == <<"out", name>>

join_relative(dir, name) == <<name>>

(* os.path.join(self.root_dir, name), lines 56-60, 76-77, 102-109, 205.    *)
join(dir, name) == Append(dir, name)

(* The paths a step of run() hands to the file system or to a              *)
(* collaborator, as names below root_dir (<<>> is root_dir itself).        *)
step_names(step) ==
    CASE step = "input_staging" -> {all_reads1, all_reads2, references_fa}
      [] step = "reference_choice" ->
             {all_reads1, all_reads2, references_fa, references_fai, reference_fa}
      [] step = "subsampling" ->
             {reference_fa, all_reads1, all_reads2, reads_for_assembly1,
              reads_for_assembly2}
      [] step = "assembly" ->
             {reads_for_assembly1, reads_for_assembly2, reference_fa, assembly_dir,
              final_assembly_fa, final_assembly_bam}
      [] step = "read_mapping" ->
             {all_reads1, all_reads2, final_assembly_fa, final_assembly_bam}
      [] step = "assembly_comparison" ->
             {final_assembly_fa, reference_fa, "assembly_compare.nucmer.coords",
              "assembly_compare.nucmer.coords.snps"}
      [] step = "variant_calling" ->
             {final_assembly_fa, final_assembly_bam, final_assembly_vcf,
              final_assembly_read_depths}
      [] step = "cleanup" -> to_delete
      [] OTHER -> {}

step_paths(c, step) ==
    { join(par.root[c], name) : name \in step_names(step) }
       \cup (IF step = "input_staging" THEN {par.root[c]} ELSE {})
       \cup (IF step = "open_log" THEN {par.logfile[c]} ELSE {})

(* The steps that can follow a step of run() that did not raise.           *)
next_steps(step) ==
    CASE step = "input_staging" -> {"open_log", "raised"}
      [] step = "open_log" -> {"reference_choice"}
      [] step = "reference_choice" -> {"subsampling", "cleanup", "raised"}
      [] step = "subsampling" -> {"assembly", "raised"}
      [] step = "assembly" -> {"read_mapping", "cleanup", "raised"}
      [] step = "read_mapping" -> {"assembly_comparison", "raised"}
      [] step = "assembly_comparison" -> {"variant_calling", "raised"}
      [] step = "variant_calling" -> {"cleanup", "raised"}
      [] step = "cleanup" -> {"returned"}
      [] OTHER -> {}

(* Two Cluster objects are constructed with different root_dir by one      *)
(* driver: both with the default log file (line 270) or both with a log    *)
(* file of their own outside, both with or without the driver's fail       *)
(* marker.                                                                 *)
ParStart ==
    /\ par.phase = "idle"
    /\ \E root \in [ClusterIds -> Dirs], own_log \in BOOLEAN, marker \in BOOLEAN :
          /\ root[1] # root[2]
          /\ par' = [ phase |-> "running",
                      root |-> root,
                      logfile |-> [c \in ClusterIds |->
                                     IF own_log THEN join(root[c], logfile)
                                     ELSE Outside(IF c = 1 THEN "log1" ELSE "log2")],
                      fail_file |-> [c \in ClusterIds |->
                                       IF marker THEN Some(Outside("fail")) ELSE None],
                      pc |-> [c \in ClusterIds |-> "input_staging"],
                      touched |-> [c \in ClusterIds |-> {}] ]
    /\ UNCHANGED <<runv, sub, num, bam, rep, proc>>

(* One step of run() in cluster c.                                         *)
ParStep(c) ==
    /\ par.phase = "running"
    /\ \E nxt \in next_steps(par.pc[c]) :
          par' = [par EXCEPT !.touched[c] = @ \cup step_paths(c, par.pc[c]),
                             !.pc[c] = nxt]
    /\ UNCHANGED <<runv, sub, num, bam, rep, proc>>

(* _receive_signal in cluster c (lines 145-153): the fail marker.          *)
ParSignal(c) ==
    /\ par.phase = "running"
    /\ par.pc[c] \notin {"returned", "raised", "exited"}
    /\ par' = [par EXCEPT !.touched[c] = @ \cup { par.fail_file[c][k] :
                                                     k \in DOMAIN par.fail_file[c] },
                          !.pc[c] = "exited"]
    /\ UNCHANGED <<runv, sub, num, bam, rep, proc>>

NextPar ==
    \/ ParStart
    \/ \E c \in ClusterIds : ParStep(c)
    \/ \E c \in ClusterIds : ParSignal(c)

SpecPar == InitPure /\ [][NextPar]_vars

-----------------------------------------------------------------------------
(* The read-classification stage of the orchestrator layer: one pass over  *)
(* the read pairs of the BAM file of all reads mapped to all references.   *)

MaxPairs == 2

MaxReadLen == 2

(* A read pair of the BAM file: the cluster it is assigned to ("None" when *)
(* neither read maps), the length of each of its reads, and its insert     *)
(* size when it is a properly oriented pair (None otherwise).              *)
ReadPairs ==
    { [cluster |-> c, length |-> l, insert |-> ins] :
        c \in {"None"} \cup {"ref1", "ref2"}, l \in 1..MaxReadLen,
        ins \in {None} \cup {Some(n) : n \in 1..MaxInsert} }

MappedPairs == { p \in ReadPairs : p.insert # None => p.cluster # "None" }

(* A count table keyed by name: the entry is created when first counted.   *)
count(table, key, n) ==
    [ k \in DOMAIN table \cup {key} |->
        IF k \in DOMAIN table
        THEN (IF k = key THEN table[k] + n ELSE table[k])
        ELSE n ]

EmptyTable == [ k \in {} |-> 0 ]

count_pair_once(b, pair) ==
    IF pair.cluster = "None" THEN b
    ELSE [b EXCEPT !.cluster_read_counts = count(@, pair.cluster, 1),
                   !.cluster_base_counts = count(@, pair.cluster, 2 * pair.length)]

(* A pair assigned to a cluster counts both of its reads and their bases.  *)
count_pair(b, pair) ==
    IF pair.cluster = "None" THEN b
    ELSE [b EXCEPT !.cluster_read_counts = count(@, pair.cluster, 2),
                   !.cluster_base_counts = count(@, pair.cluster, 2 * pair.length)]

(* A properly oriented pair is counted and its insert size binned.         *)
count_proper(b, pair) ==
    IF pair.insert = None THEN b
    ELSE [b EXCEPT !.proper_pairs = @ + 1,
                   !.insert_hist = count(@, pair.insert[1], 1)]

BamCall ==
    /\ bam.phase = "idle"
    /\ \E pairs \in SeqUpTo(MappedPairs, MaxPairs) :
          bam' = [ phase |-> "loop", pairs |-> pairs, i |-> 1,
                   cluster_read_counts |-> EmptyTable,
                   cluster_base_counts |-> EmptyTable,
                   insert_hist |-> EmptyTable, proper_pairs |-> 0 ]
    /\ UNCHANGED <<runv, sub, num, par, rep, proc>>

BamStep ==
    /\ bam.phase = "loop"
    /\ bam.i <= Len(bam.pairs)
    /\ bam' = [count_proper(count_pair(bam, bam.pairs[bam.i]), bam.pairs[bam.i])
                  EXCEPT !.i = @ + 1]
    /\ UNCHANGED <<runv, sub, num, par, rep, proc>>

BamReturn ==
    /\ bam.phase = "loop"
    /\ bam.i > Len(bam.pairs)
    /\ bam' = [bam EXCEPT !.phase = "returned"]
    /\ UNCHANGED <<runv, sub, num, par, rep, proc>>

NextBam ==
    \/ BamCall
    \/ BamStep
    \/ BamReturn

SpecBam == InitPure /\ [][NextBam]_vars

-----------------------------------------------------------------------------
(* The report rows of a set of clusters, written to the report file and    *)
(* read back by the summary layer.  A line is a sequence of characters.    *)

MaxRows == 2

Columns == 2

TabChar == "TAB"

FieldValues == { <<"g">>, <<".", "1">> }

Rows == [1..Columns -> FieldValues]

ClusterNames == <<"gene1", "gene2">>

HeaderFields == [i \in 1..Columns |-> <<"#">>]

RECURSIVE report_line(_)
(* A report row as one line: its fields joined by tabs.                    *)
report_line(fields) ==
    IF Len(fields) = 0 THEN <<>>
    ELSE IF Len(fields) = 1 THEN fields[1]
    ELSE fields[1] \o <<TabChar>> \o report_line(Tail(fields))

RECURSIVE lines_of(_)
lines_of(rows) ==
    IF rows = <<>> THEN <<>>
    ELSE <<report_line(Head(rows))>> \o lines_of(Tail(rows))

RECURSIVE write_clusters(_, _)
write_clusters(clusters, names) ==
    IF names = <<>> THEN <<>>
    ELSE lines_of(clusters[Head(names)]) \o write_clusters(clusters, Tail(names))

(* The report file: a header line, then the report lines of every cluster, *)
(* clusters in the order of their names.                                   *)
write_reports(clusters) ==
    <<report_line(HeaderFields)>> \o write_clusters(clusters, ClusterNames)

RECURSIVE split_from(_, _)
split_from(line, current) ==
    IF line = <<>> THEN <<current>>
    ELSE IF Head(line) = TabChar THEN <<current>> \o split_from(Tail(line), <<>>)
    ELSE split_from(Tail(line), Append(current, Head(line)))

line2fields_last_first(line) ==
    LET f == split_from(line, <<>>) IN <<f[Len(f)]>> \o SubSeq(f, 1, Len(f) - 1)

(* The summary layer's reading of one line: the fields between the tabs.   *)
line2fields(line) == split_from(line, <<>>)

(* The summary layer's reading of the file: every line but the header.     *)
load_file(file) == [i \in 1..(Len(file) - 1) |-> line2fields(file[i + 1])]

RepCall ==
    /\ rep.phase = "idle"
    /\ \E clusters \in [Range(ClusterNames) -> SeqUpTo(Rows, MaxRows)] :
          rep' = [phase |-> "made", clusters |-> clusters, file |-> <<>>,
                  loaded |-> <<>>]
    /\ UNCHANGED <<runv, sub, num, par, bam, proc>>

RepWrite ==
    /\ rep.phase = "made"
    /\ rep' = [rep EXCEPT !.phase = "written", !.file = write_reports(rep.clusters)]
    /\ UNCHANGED <<runv, sub, num, par, bam, proc>>

RepLoad ==
    /\ rep.phase = "written"
    /\ rep' = [rep EXCEPT !.phase = "loaded", !.loaded = load_file(rep.file)]
    /\ UNCHANGED <<runv, sub, num, par, bam, proc>>

NextRep ==
    \/ RepCall
    \/ RepWrite
    \/ RepLoad

SpecRep == InitPure /\ [][NextRep]_vars

-----------------------------------------------------------------------------
(* Properties.                                                             *)


IsPrefix(s, t) == Len(s) <= Len(t) /\ \A i \in 1..Len(s) : s[i] = t[i]

FullPath ==
    << "input_staging", "reference_choice", "subsampling", "assembly", "read_mapping",
       "assembly_comparison", "variant_extraction", "variant_calling", "report",
       "cleanup" >>

AssemblyFailedPath ==
    << "input_staging", "reference_choice", "subsampling", "assembly", "report",
       "cleanup" >>

RefChooseFailedPath == << "input_staging", "reference_choice", "report", "cleanup" >>

NonsynIn(table) ==
    \E j \in 1..Len(table) : \E i \in 1..Len(table[j]) :
        table[j][i][4] \notin {".", "SYN", "None"}

(* C1: the stages of a run are invoked in the order staging, reference     *)
(* choice, subsampling, assembly, mapping, comparison, extraction,         *)
(* calling, report, cleanup; subsampling and assembly only after a         *)
(* reference was chosen, mapping to calling only after assembled_ok; a     *)
(* stage starts only when all earlier ones have completed, none twice.     *)
C1_StageOrder ==
    /\ \/ IsPrefix(started, FullPath)
       \/ IsPrefix(started, AssemblyFailedPath)
       \/ IsPrefix(started, RefChooseFailedPath)
    /\ IsPrefix(completed, started)
    /\ Len(started) - Len(completed) <= 1
    /\ "subsampling" \in Range(started) => ref_sequence # "None"
    /\ "read_mapping" \in Range(started) => assembled_ok = "True"
    /\ ("report" \in Range(started) /\ "variant_calling" \notin Range(started))
          => assembled_ok = "False"
    /\ ("report" \in Range(started) /\ "subsampling" \notin Range(started))
          => ref_sequence = "None"

C1_Witness == pc = "returned" /\ started = FullPath /\ completed = FullPath

(* C2, as claimed: when run() has raised to its caller and a fail file is  *)
(* configured, the fail marker has been written.                           *)
C2_Original == (pc = "raised" /\ fail_file # "None") => FailMarker \in files

(* C2, amended: run() raises to its caller without writing the fail        *)
(* marker; the marker exists exactly when a signal was handled while a     *)
(* fail file is configured.                                                *)
C2_MarkerOnlyOnSignal ==
    /\ (pc = "raised" /\ ~signalled) => FailMarker \notin files
    /\ FailMarker \in files <=> (signalled /\ fail_file # "None")

C2_Witness ==
    /\ pc = "raised"
    /\ exc = "Error"
    /\ raised_in = "read_mapping"
    /\ fail_file # "None"
    /\ FailMarker \notin files

(* C3, as claimed: whenever run() has raised to its caller after the log   *)
(* was opened, the error was written to the log and the log handle is      *)
(* closed (log_fh is None).                                                *)
C3_Original ==
    (pc = "raised" /\ "reference_choice" \in Range(started))
        => /\ log_fh = "None"
           /\ Len(log) > 0
           /\ log[Len(log)] = "Error running cluster! Error was:"

(* C4: once a stage has raised, it stays the last stage invoked: it did    *)
(* not complete, no report lines exist, cleanup was not run, and run()     *)
(* ends by raising, never by returning.                                    *)
C4_TerminalOnError ==
    raised_in # "None"
        => /\ started[Len(started)] = raised_in
           /\ raised_in \notin Range(completed)
           /\ report_lines = None
           /\ "report" \notin Range(started)
           /\ "cleanup" \notin Range(started)
           /\ exc # "None"
           /\ pc \in {"handler", "handler_closed", "raised", "exited", "dead"}

C4_Witness ==
    /\ pc = "raised"
    /\ raised_in = "variant_calling"
    /\ started = SubSeq(FullPath, 1, 8)

(* C5, as claimed: after a termination signal was delivered, the log is    *)
(* closed, the fail marker is written if configured, and the process has   *)
(* exited with status 1.                                                   *)
C5_Original ==
    signalled
        => /\ log_fh = "None"
           /\ fail_file # "None" => FailMarker \in files
           /\ exit_status = "1"
           /\ pc \in {"exited", "dead"}

ChoiceFailed == "reference_choice" \in Range(completed) /\ ref_sequence = "None"

(* C6: after the chooser returned no reference, ref_seq_choose_fail is set *)
(* and assembled_ok is false, no exception is raised, the run goes on to   *)
(* the report and returns (unless a signal ends it), and the report has    *)
(* exactly one row, carrying the flag with ref_seq_choose_fail.            *)
C6_NoReference ==
    ChoiceFailed
        => /\ has(status_flag, "ref_seq_choose_fail")
           /\ assembled_ok = "False"
           /\ exc \in {"None", "SystemExit"}
           /\ raised_in = "None"
           /\ ~signalled => pc \in {"else_branch", "report", "cleanup", "epilogue",
                                    "epilogue_closed", "returned", "dead"}
           /\ pc = "returned"
                 => /\ report_lines # None
                    /\ Len(report_lines[1]) = 1
                    /\ report_lines[1][1].flag = to_bits(status_flag)

C6_Witness == ChoiceFailed /\ pc = "returned" /\ exc = "None"

(* C7: when assembled_ok is false (no reference, or the assembler said     *)
(* so), mapping, comparison, extraction and calling are never invoked,     *)
(* nor subsampling and assembly after a failed choice; the failure tag is  *)
(* set before the report, no exception is raised, and a run that returned  *)
(* has made its report lines and run the cleanup.                          *)
C7_ShortCircuit ==
    assembled_ok = "False"
        => /\ Range(started) \cap {"read_mapping", "assembly_comparison",
                                   "variant_extraction", "variant_calling"} = {}
           /\ ref_sequence = "None"
                 => /\ Range(started) \cap {"subsampling", "assembly"} = {}
                    /\ has(status_flag, "ref_seq_choose_fail")
           /\ "report" \in Range(started) => has(status_flag, "assembly_fail")
           /\ raised_in = "None"
           /\ exc \in {"None", "SystemExit"}
           /\ ~signalled => pc \in {"else_branch", "report", "cleanup", "epilogue",
                                    "epilogue_closed", "returned", "dead"}
           /\ pc = "returned"
                 => /\ report_lines # None
                    /\ "cleanup" \in Range(completed)
                    /\ exc = "None"

C7_Witness ==
    /\ pc = "returned"
    /\ assembled_ok = "False"
    /\ ref_sequence # "None"
    /\ started = AssemblyFailedPath

(* C8: no step of a run clears a tag of the status flag, the step that     *)
(* replaces the flag by update_flag's result included, and the bit string  *)
(* of the flag keeps its length.                                           *)
C8_TagsAdditive ==
    [][ /\ status_flag \subseteq status_flag'
        /\ Len(to_bits(status_flag')) = Len(to_bits(status_flag)) ]_vars

C8_Witness ==
    /\ {"hit_both_strands", "scaffold_graph_bad", "assembled",
        "has_nonsynonymous_variants"} \subseteq status_flag
    /\ pc = "returned"

OrchestratorTags ==
    { "ref_seq_choose_fail", "hit_both_strands", "scaffold_graph_bad",
      "has_nonsynonymous_variants", "variants_suggest_collapsed_repeat",
      "assembly_fail" }

C9_Case ==
    /\ pc = "returned"
    /\ assembled_ok = "True"
    /\ assembly_compare # None
    /\ assembly_compare[1].ref_covered
    /\ assembly_variants # None
    /\ NonsynIn(assembly_variants[1])

(* C9, as claimed: assembly succeeded, reference covered, a non-synonymous *)
(* change found: of the tags the orchestrator sets, exactly                *)
(* has_nonsynonymous_variants is set at the end of the run.                *)
C9_Original ==
    C9_Case => status_flag \cap OrchestratorTags = {"has_nonsynonymous_variants"}

(* C9, amended: in that case has_nonsynonymous_variants is set and neither *)
(* assembly_fail nor ref_seq_choose_fail is; the informational tags may be *)
(* set as well.                                                            *)
C9_NonsynNoFail ==
    C9_Case
        => /\ has(status_flag, "has_nonsynonymous_variants")
           /\ ~has(status_flag, "assembly_fail")
           /\ ~has(status_flag, "ref_seq_choose_fail")

C9_Witness == C9_Case /\ has(status_flag, "hit_both_strands")

(* C10: after the variant-extraction stage has_nonsynonymous_variants is   *)
(* set exactly when some variant of some position has a consequence other  *)
(* than ".", "SYN" and None; with none such, or no variant at all, the     *)
(* stage leaves the tag unset.                                             *)
C10_NonsynTag ==
    "variant_extraction" \in Range(completed)
        => (has(status_flag, "has_nonsynonymous_variants")
               <=> NonsynIn(assembly_variants[1]))

C10_Witness ==
    /\ "variant_extraction" \in Range(completed)
    /\ Len(assembly_variants[1]) = 2
    /\ assembly_variants[1][1] = <<Var("."), Var("None")>>
    /\ assembly_variants[1][2] = <<Var("SYN"), Var("NONSYN")>>
    /\ has(status_flag, "has_nonsynonymous_variants")

(* C11: variants_suggest_collapsed_repeat is set exactly when the assembly *)
(* succeeded and the variant caller has returned at least one passing call *)
(* that lies within the matched assembly coordinates; it is not set when   *)
(* the assembly failed nor when every passing call lies outside them.      *)
C11_CollapsedRepeat ==
    /\ has(status_flag, "variants_suggest_collapsed_repeat")
          <=> /\ assembled_ok = "True"
              /\ samtools_vars # None
              /\ \E p \in samtools_vars[1].vcf_file :
                     p \in assembly_compare[1].assembly_match_coords
    /\ assembled_ok = "False"
          => ~has(status_flag, "variants_suggest_collapsed_repeat")

C11_Witness ==
    /\ pc = "returned"
    /\ has(status_flag, "variants_suggest_collapsed_repeat")
    /\ samtools_vars[1].vcf_file = {1, 3}
    /\ assembly_compare[1].assembly_match_coords = {2, 3}

(* C12: hit_both_strands and scaffold_graph_bad are set only on a          *)
(* successful assembly whose condition holds, and are set once the mapping *)
(* has returned with that condition; neither makes the run take the        *)
(* failure branch or set assembly_fail, and a run that returns after a     *)
(* successful assembly has completed every stage and made its report.      *)
C12_Informational ==
    /\ has(status_flag, "hit_both_strands")
          <=> /\ "read_mapping" \in Range(completed)
              /\ assembled_ok = "True"
              /\ assembly[1].has_contigs_on_both_strands
    /\ has(status_flag, "scaffold_graph_bad")
          <=> /\ "read_mapping" \in Range(completed)
              /\ assembled_ok = "True"
              /\ ~assembly[1].scaff_graph_ok
    /\ "read_mapping" \in Range(completed)
          => (~has(status_flag, "assembly_fail") /\ pc # "else_branch")
    /\ (pc = "returned" /\ assembled_ok = "True")
          => (completed = FullPath /\ report_lines # None)

C12_Witness ==
    /\ pc = "returned"
    /\ has(status_flag, "hit_both_strands")
    /\ has(status_flag, "scaffold_graph_bad")
    /\ ~has(status_flag, "assembly_fail")
    /\ completed = FullPath

(* C13: with clean = False no step of the object removes a path from the   *)
(* file system, and the cleanup stage does nothing but write the log line  *)
(* that says it deletes nothing.                                           *)
C13_NoCleanKeepsFiles ==
    [][ ~clean => /\ files \subseteq files'
                  /\ (pc = "cleanup" /\ pc' = "epilogue")
                       => /\ files' = files
                          /\ log' = Append(log, "not deleting anything because --noclean used")
      ]_vars

C13_Witness ==
    /\ pc = "returned"
    /\ ~clean
    /\ {all_reads1, all_reads2, references_fa, reference_fa, reads_for_assembly1,
        reads_for_assembly2, assembly_dir, final_assembly_fa, final_assembly_bam,
        final_assembly_vcf} \subseteq files

Intermediates ==
    { "reads_1.fq", "reads_2.fq", "references.fa", "reference.fa",
      "reads_for_assembly_1.fq", "reads_for_assembly_2.fq", "Assembly", "assembly.fa",
      "assembly.reads_mapped.bam", "assembly.reads_mapped.bam.bai",
      "assembly.reads_mapped.bam.read_depths.gz",
      "assembly.reads_mapped.bam.read_depths.gz.tbi", "assembly.reads_mapped.bam.vcf",
      "assembly_compare.nucmer.coords", "assembly_compare.nucmer.coords.snps" }

(* C14: when run() has returned normally with clean = True, on the         *)
(* successful and on the failure branches alike, none of the intermediate  *)
(* artifacts exists any more, and the log file still does.                 *)
C14_CleanRemovesIntermediates ==
    (pc = "returned" /\ clean)
        => (files \cap Intermediates = {} /\ logfile \in files)

C14_Witness ==
    /\ pc = "returned"
    /\ clean
    /\ read_store
    /\ completed = FullPath
    /\ files \cap Intermediates = {}

(* C15: whenever the read-mapping stage is invoked it is handed the full   *)
(* read files reads_1.fq and reads_2.fq, never the reads_for_assembly      *)
(* files, whether subsampling made a subset or links.                      *)
C15_MapsAllReads ==
    /\ "read_mapping" \in Range(started)
          => mapped_reads = Some(<<"reads_1.fq", "reads_2.fq">>)
    /\ mapped_reads # None
          => Range(mapped_reads[1]) \cap {reads_for_assembly1, reads_for_assembly2} = {}

C15_Witness ==
    /\ pc = "returned"
    /\ reads_for_assembly = "subset"
    /\ "read_mapping" \in Range(completed)
    /\ mapped_reads = Some(<<all_reads1, all_reads2>>)

(* The two records of one position are the two mates of one input pair.    *)
Mates(r1, r2) == r1[1] = r2[1] /\ r1[2] = 1 /\ r2[2] = 2

(* C16: in the sampling branch, at every moment and whatever the input     *)
(* files and the draws, the two output files hold the same number of       *)
(* records and their i-th records are mates: a pair is written to both or  *)
(* to neither.  In the link branch the outputs are the inputs, so nothing  *)
(* is dropped.                                                             *)
C16_PairsTogether ==
    /\ (sub.phase # "idle" /\ ~sub.links)
          => /\ Len(sub.out1) = Len(sub.out2)
             /\ \A k \in 1..Len(sub.out1) : Mates(sub.out1[k], sub.out2[k])
    /\ sub.links => (sub.out1 = sub.reads_in1 /\ sub.out2 = sub.reads_in2)

C16_Witness ==
    /\ sub.phase = "returned"
    /\ sub.random_seed = None
    /\ Len(sub.reads_in1) = 2
    /\ Len(sub.reads_in2) = 2
    /\ sub.out1 = << <<2, 1>> >>
    /\ sub.out2 = << <<2, 2>> >>

(* C17: when the wanted count is at least the total count, equality        *)
(* included, the call returns at once: no draw is made, the outputs are    *)
(* links with exactly the content of the inputs, and the value returned is *)
(* the total read count.                                                   *)
C17_NoOp ==
    (sub.phase # "idle" /\ sub.number_of_wanted_reads >= sub.total_reads)
        => /\ sub.phase = "returned"
           /\ sub.draws = 0
           /\ sub.links
           /\ sub.out1 = sub.reads_in1
           /\ sub.out2 = sub.reads_in2
           /\ sub.ret = Some(sub.total_reads)

C17_Witness ==
    /\ sub.phase = "returned"
    /\ sub.number_of_wanted_reads = sub.total_reads
    /\ sub.total_reads = 4
    /\ Len(sub.reads_in1) = 2
    /\ sub.links
    /\ sub.ret = Some(4)

(* C18: with insert size, total bases and total reads fixed, a call with a *)
(* larger coverage or a longer reference never returns fewer reads, after  *)
(* the ceiling and the rounding up to an even number.                      *)
C18_Monotone ==
    num.phase = "returned"
        => \A c2 \in num.coverage..MaxCoverage, l2 \in num.ref_length..MaxRefLen :
              \A above2 \in rounds_above(c2 * (l2 + 2 * num.insert_size),
                                         num.total_bases, num.total_reads) :
                 ((c2 = num.coverage /\ l2 = num.ref_length) => above2 = num.above)
                    => number_of_reads_for_assembly(l2, num.insert_size,
                           num.total_bases, num.total_reads, c2, above2)
                          >= num.wanted_reads[1]

C18_Witness ==
    /\ num.phase = "returned"
    /\ num.coverage < MaxCoverage
    /\ num.ref_length < MaxRefLen
    /\ LET wanted_bases == num.coverage * (num.ref_length + 2 * num.insert_size)
       IN  /\ (wanted_bases * num.total_reads) % num.total_bases # 0
           /\ ceil_div(wanted_bases * num.total_reads, num.total_bases) % 2 = 1
           /\ num.wanted_reads[1]
                 = ceil_div(wanted_bases * num.total_reads, num.total_bases) + 1

(* The exact quotient of a returned call, as numerator and denominator.    *)
NumQuotient ==
    <<num.coverage * (num.ref_length + 2 * num.insert_size) * num.total_reads,
      num.total_bases>>

(* An integer r is at least the computed quotient: the exact quotient, or  *)
(* the next double above it when the division rounded above.               *)
AtLeastQuotient(r) ==
    /\ r * NumQuotient[2] >= NumQuotient[1]
    /\ num.above => r * NumQuotient[2] > NumQuotient[1]

C19_SeedDeterminism ==
    /\ sub.phase # "idle" => sub.random_seed = sub.self_random_seed
    /\ (sub.execution = 2 /\ sub.phase \in {"returned", "raised"}
           /\ sub.self_random_seed # None)
          => sub_result(sub) = sub.first[1]

C19_Witness ==
    /\ sub.execution = 2
    /\ sub.phase = "returned"
    /\ sub.self_random_seed = Some(0)
    /\ Len(sub.reads_in1) = 2
    /\ sub.out1 = << <<2, 1>> >>
    /\ sub.first[1].out1 = << <<2, 1>> >>

(* C20, as stated: log_fh is None after construction and whenever run()    *)
(* has exited, by returning or by raising.                                 *)
C20_Original ==
    pc \in {"init", "returned", "raised", "exited"} => log_fh = "None"


(* C30, as stated: on every path the log handle that run() opened is       *)
(* closed exactly once: no close acts on a handle that is already closed,  *)
(* and when the process has ended, having opened the log, the handle was   *)
(* closed and log_fh is None.                                              *)
C30_Original ==
    /\ log_closes <= 1
    /\ (pc = "dead" /\ logfile \in files) => (log_closes = 1 /\ log_fh = "None")


(* The records of an output file are records of the input file, in         *)
(* strictly increasing position.                                           *)
InInputOrder(out, input) ==
    /\ \A k \in 1..Len(out) : out[k][1] \in 1..Len(input) /\ out[k] = input[out[k][1]]
    /\ \A k \in 1..(Len(out) - 1) : out[k][1] < out[k + 1][1]

Sampled == sub.phase = "returned" /\ ~sub.links

(* C27: _make_reads_for_assembly returns the number of reads in its output *)
(* files.  In the sampling branch the value is the number of records       *)
(* written to both outputs together, which is twice the number of selected *)
(* pairs and at most the number of input records, and the selected pairs   *)
(* are in the outputs in their input order.  In the link branch the value  *)
(* is total_reads, the number of records of the linked files when          *)
(* total_reads is the count of the input records.                          *)
C27_ReturnsReadsWritten ==
    /\ Sampled
          => /\ sub.ret = Some(Len(sub.out1) + Len(sub.out2))
             /\ Len(sub.out1) = Len(sub.out2)
             /\ sub.ret[1] = 2 * Len(sub.out1)
             /\ sub.ret[1] <= Len(sub.reads_in1) + Len(sub.reads_in2)
             /\ InInputOrder(sub.out1, sub.reads_in1)
             /\ InInputOrder(sub.out2, sub.reads_in2)
             /\ \A k \in 1..Len(sub.out1) : sub.out1[k][1] = sub.out2[k][1]
    /\ (sub.phase = "returned" /\ sub.links)
          => /\ sub.ret = Some(sub.total_reads)
             /\ sub.total_reads = Len(sub.reads_in1) + Len(sub.reads_in2)
                   => sub.ret = Some(Len(sub.out1) + Len(sub.out2))

(* A sampling execution that selected both pairs of a two-pair input.      *)
C27_Witness ==
    /\ Sampled
    /\ Len(sub.reads_in1) = 2
    /\ sub.ret = Some(4)
    /\ sub.out1 = sub.reads_in1
    /\ sub.out2 = sub.reads_in2

(* C28: in the sampling branch, when file 2 ends before file 1, Error is   *)
(* raised at the first read of file 1 without a mate, both output handles  *)
(* are closed when it propagates, and only whole pairs have been written;  *)
(* such an execution never returns a value.                                *)
C28_NoMateError ==
    /\ sub.phase = "raised"
          => /\ sub.exc = "Error"
             /\ sub.ret = None
             /\ sub.open = {}
             /\ Len(sub.reads_in2) < Len(sub.reads_in1)
             /\ sub.i = Len(sub.reads_in2) + 1
             /\ sub.draws = Len(sub.reads_in2)
             /\ Len(sub.out1) = Len(sub.out2)
             /\ \A k \in 1..Len(sub.out1) :
                   /\ sub.out1[k][1] = sub.out2[k][1]
                   /\ sub.out1[k][1] <= Len(sub.reads_in2)
    /\ Sampled => Len(sub.reads_in2) >= Len(sub.reads_in1)
    /\ (sub.phase = "loop" /\ sub.i <= Len(sub.reads_in2) + 1) => sub.open = {"out1", "out2"}

(* Two reads in file 1, one in file 2: the pair was selected and written,  *)
(* then the second read of file 1 had no mate.                             *)
C28_Witness ==
    /\ sub.phase = "raised"
    /\ Len(sub.reads_in1) = 2
    /\ Len(sub.reads_in2) = 1
    /\ sub.out1 = <<sub.reads_in1[1]>>
    /\ sub.out2 = <<sub.reads_in2[1]>>
    /\ sub.open = {}


(* The files a stage of _run() is given as its input, by the value of pc   *)
(* at which the stage is about to run.                                     *)
StageInputs(stage) ==
    CASE stage = "reference_choice" -> {all_reads1, all_reads2, references_fa}
      [] stage = "subsampling" -> {reference_fa, all_reads1, all_reads2}
      [] stage = "assembly" -> {reads_for_assembly1, reads_for_assembly2, reference_fa}
      [] stage = "read_mapping" -> {all_reads1, all_reads2, final_assembly_fa}
      [] stage = "assembly_comparison" -> {final_assembly_fa, reference_fa}
      [] stage = "variant_extraction" -> {"assembly_compare.nucmer.coords.snps"}
      [] stage = "variant_calling" -> {final_assembly_fa, final_assembly_bam}
      [] OTHER -> {}

BeforeFinalCleanup ==
    pc \in {"subsampling", "assembly", "read_mapping", "assembly_comparison",
            "variant_extraction", "variant_calling", "else_branch", "report", "cleanup"}

(* C29: no stage is about to use a file that an earlier deletion of the    *)
(* run removed.  From the reference choice until the final cleanup         *)
(* reads_1.fq and reads_2.fq are in place, and so are reference.fa once a  *)
(* reference was chosen and assembly.fa once the assembly succeeded, also  *)
(* when reads_for_assembly_1/2.fq were links to the reads files and have   *)
(* been deleted.                                                           *)
C29_NoUseAfterDelete ==
    /\ StageInputs(pc) \subseteq files
    /\ BeforeFinalCleanup
          => /\ {all_reads1, all_reads2} \subseteq files
             /\ ref_sequence # "None" => reference_fa \in files
             /\ assembled_ok = "True" => final_assembly_fa \in files

(* A cleaning run whose subsampling made links: the links were deleted     *)
(* after the assembly, and the mapping is about to read reads_1/2.fq.      *)
C29_Witness ==
    /\ pc = "read_mapping"
    /\ clean
    /\ reads_for_assembly = "links"
    /\ references_fa \notin files
    /\ {reads_for_assembly1, reads_for_assembly2, assembly_dir} \cap files = {}
    /\ {all_reads1, all_reads2, reference_fa, final_assembly_fa} \subseteq files


InputFiles == {all_reads1, all_reads2, references_fa}

(* C25: input staging has two exclusive modes.  With a read store and no   *)
(* root_dir, run() creates root_dir and calls get_reads and then           *)
(* write_seqs_to_fasta, once each, with the paths of reads_1.fq,           *)
(* reads_2.fq and references.fa; without a read store (root_dir exists)    *)
(* no collaborator is called.  In both modes a missing input file ends     *)
(* run() with Error before the log is opened and before the working        *)
(* directory is changed, and the log is opened only with all three files   *)
(* present.                                                                *)
C25_StagingModes ==
    /\ ~read_store => staged = <<>>
    /\ staged \in {<<>>, <<get_reads>>, <<get_reads, write_seqs_to_fasta>>}
    /\ staged # <<>> => root_dir \in files
    /\ (read_store /\ (pc = "check_inputs" \/ "input_staging" \in Range(completed)))
          => staged = <<get_reads, write_seqs_to_fasta>>
    /\ pc = "open_log" => InputFiles \subseteq files
    /\ (raised_in = "input_staging" /\ pc \in {"raised", "dead"})
          => /\ log_fh = "None"
             /\ logfile \notin files
             /\ log = <<>>
             /\ cwd = "original_dir"
    /\ (raised_in = "input_staging" /\ pc \in {"raised", "dead"}
          /\ ~(InputFiles \subseteq files) /\ (root_dir \in files) /\ (read_store => Len(staged) = 2))
          => exc = "Error"
    /\ (log_fh # "None" \/ cwd # "original_dir") => "input_staging" \in Range(completed)

(* The read store and the reference data were called, references.fa is     *)
(* not there, and run() has raised Error with the log not opened.          *)
C25_Witness ==
    /\ pc = "raised"
    /\ read_store
    /\ staged = <<get_reads, write_seqs_to_fasta>>
    /\ references_fa \notin files
    /\ exc = "Error"
    /\ log_fh = "None"
    /\ cwd = "original_dir"


Terminated == pc \in {"returned", "raised", "exited", "dead"}

(* C22: a run in which every external program returns eventually ends, by  *)
(* returning or by raising (an exception or the exit of a signal); a run   *)
(* in which one never returns stays in that call, without timeout, and     *)
(* never makes the report or cleans up: it can only be ended by a signal.  *)
C22_Termination ==
    /\ ([](waiting = "None")) => <>Terminated
    /\ [](waiting # "None"
             => /\ pc \in {"blocked", "exited", "dead"}
                /\ report_lines = None
                /\ "report" \notin Range(started)
                /\ "cleanup" \notin Range(started)
                /\ pc = "blocked" => ~signalled)

(* The assembler has not returned; nothing has ended the run.              *)
C22_Witness ==
    /\ waiting = "assembly"
    /\ pc = "blocked"
    /\ ~signalled
    /\ report_lines = None


(* Path p lies in directory dir: it is dir or below it.                    *)
Inside(p, dir) == IsPrefix(dir, p)

(* The log file and the fail marker of cluster c, as configured.           *)
Configured(c) ==
    {par.logfile[c]} \cup { par.fail_file[c][k] : k \in DOMAIN par.fail_file[c] }

NoTouchInOther ==
    \A c \in ClusterIds, d \in ClusterIds :
        c # d => \A p \in par.touched[c] \ Configured(c) : ~Inside(p, par.root[d])

(* C21, as stated: for two clusters with distinct working directories, no  *)
(* cluster touches a path inside the other's working directory, apart from *)
(* its configured log file and fail marker.                                *)
C21_Original ==
    (par.phase = "running" /\ par.root[1] # par.root[2]) => NoTouchInOther

(* C21: for two clusters run in parallel whose working directories are     *)
(* different and not one inside the other, in every interleaving, every    *)
(* path a run touches, apart from its configured log file and fail marker, *)
(* lies in its own root_dir, and none lies in the other's root_dir.        *)
C21_Isolation ==
    par.phase = "running"
        => /\ \A c \in ClusterIds :
                 \A p \in par.touched[c] \ Configured(c) : Inside(p, par.root[c])
           /\ (~Inside(par.root[1], par.root[2]) /\ ~Inside(par.root[2], par.root[1]))
                 => NoTouchInOther

(* Both clusters ran to the end, interleaved, in directories side by side, *)
(* and each deleted files.                                                 *)
C21_Witness ==
    /\ par.phase = "running"
    /\ par.root[1] = <<"a", "a">>
    /\ par.root[2] = <<"a", "b">>
    /\ \A c \in ClusterIds :
          /\ par.pc[c] = "returned"
          /\ join(par.root[c], assembly_dir) \in par.touched[c]
          /\ join(par.root[c], all_reads1) \in par.touched[c]


PairsOf(c) == { i \in 1..Len(bam.pairs) : bam.pairs[i].cluster = c }

RECURSIVE SumOver(_, _)
SumOver(S, f) ==
    IF S = {} THEN 0
    ELSE LET x == CHOOSE y \in S : TRUE IN f[x] + SumOver(S \ {x}, f)

(* C23: after the read classification, for every cluster that a pair was   *)
(* assigned to, cluster_read_counts is twice the number of its pairs and   *)
(* cluster_base_counts the sum of the lengths of their reads; clusters     *)
(* without a pair have no entry; proper_pairs is the number of properly    *)
(* oriented pairs; and when no read maps, both tables and the insert       *)
(* histogram are empty and proper_pairs is 0.                              *)
C23_ReadCounts ==
    bam.phase = "returned"
        => /\ DOMAIN bam.cluster_read_counts
                 = { c \in {"ref1", "ref2"} : PairsOf(c) # {} }
           /\ DOMAIN bam.cluster_base_counts = DOMAIN bam.cluster_read_counts
           /\ \A c \in DOMAIN bam.cluster_read_counts :
                 /\ bam.cluster_read_counts[c] = 2 * Cardinality(PairsOf(c))
                 /\ bam.cluster_base_counts[c]
                       = SumOver(PairsOf(c), [i \in 1..Len(bam.pairs) |->
                                                 2 * bam.pairs[i].length])
           /\ bam.proper_pairs
                 = Cardinality({ i \in 1..Len(bam.pairs) : bam.pairs[i].insert # None })
           /\ (\A i \in 1..Len(bam.pairs) : bam.pairs[i].cluster = "None")
                 => /\ bam.cluster_read_counts = EmptyTable
                    /\ bam.cluster_base_counts = EmptyTable
                    /\ bam.insert_hist = EmptyTable
                    /\ bam.proper_pairs = 0

(* Two pairs assigned to ref1, one of them properly oriented.              *)
C23_Witness ==
    /\ bam.phase = "returned"
    /\ Len(bam.pairs) = 2
    /\ bam.cluster_read_counts = [c \in {"ref1"} |-> 4]
    /\ bam.cluster_base_counts = [c \in {"ref1"} |-> 6]
    /\ bam.proper_pairs = 1

RECURSIVE AllRows(_, _)
AllRows(clusters, names) ==
    IF names = <<>> THEN <<>>
    ELSE clusters[Head(names)] \o AllRows(clusters, Tail(names))

C32_Original ==
    pc \in {"returned", "raised"} => cwd = "original_dir"


(* C33: the report rows carry the final status flag.  No step changes the  *)
(* flag and leaves report rows behind, once report_lines exist no step     *)
(* changes the flag or the rows (the cleanup included), and every row      *)
(* carries the bit string of the flag as it is.                            *)
C33_ReportAfterFlags ==
    [][ /\ status_flag' # status_flag => (report_lines = None /\ report_lines' = None)
        /\ report_lines # None
              => (status_flag' = status_flag /\ report_lines' = report_lines)
        /\ report_lines' # None
              => \A k \in 1..Len(report_lines'[1]) :
                    report_lines'[1][k].flag = to_bits(status_flag') ]_vars

(* A cleaning run that returned with four tags set, all in its report.     *)
C33_Witness ==
    /\ pc = "returned"
    /\ clean
    /\ "cleanup" \in Range(completed)
    /\ {"hit_both_strands", "scaffold_graph_bad", "has_nonsynonymous_variants",
        "variants_suggest_collapsed_repeat"} \subseteq status_flag
    /\ report_lines # None
    /\ report_lines[1][1].flag = to_bits(status_flag)


AtReport == pc = "report" \/ "report" \in Range(started)

(* C34: from report time on, assembled_ok is decided and assembly_fail is  *)
(* set exactly when it is false; ref_seq_choose_fail comes with            *)
(* assembly_fail; and at no point of a run is assembly_fail set together   *)
(* with hit_both_strands, scaffold_graph_bad, has_nonsynonymous_variants   *)
(* or variants_suggest_collapsed_repeat.                                   *)
C34_FailureTags ==
    /\ AtReport
          => /\ assembled_ok \in {"True", "False"}
             /\ has(status_flag, "assembly_fail") <=> assembled_ok = "False"
             /\ has(status_flag, "ref_seq_choose_fail") => has(status_flag, "assembly_fail")
    /\ has(status_flag, "assembly_fail")
          => status_flag \cap {"hit_both_strands", "scaffold_graph_bad",
                               "has_nonsynonymous_variants",
                               "variants_suggest_collapsed_repeat"} = {}

(* A run that found no reference and reported it with both failure tags.   *)
C34_Witness ==
    /\ pc = "returned"
    /\ status_flag = {"ref_seq_choose_fail", "assembly_fail"}
    /\ assembled_ok = "False"
    /\ report_lines # None


(* C36: from the creation of the report rows onwards, assembly_compare,    *)
(* the variant table and the variant-caller object are set exactly when    *)
(* assembled_ok is true; and at every point of a run, after a failed       *)
(* reference choice or a failed assembly all three are still None.         *)
C36_DerivedObjects ==
    /\ report_lines # None
          => /\ assembled_ok \in {"True", "False"}
             /\ assembly_compare # None <=> assembled_ok = "True"
             /\ assembly_variants # None <=> assembled_ok = "True"
             /\ samtools_vars # None <=> assembled_ok = "True"
    /\ assembled_ok = "False"
          => /\ assembly_compare = None
             /\ assembly_variants = None
             /\ samtools_vars = None

(* A run with a successful assembly has made its report; the comparison,   *)
(* the variant table and the variant caller's object are retained.         *)
C36_Witness ==
    /\ pc = "cleanup"
    /\ report_lines # None
    /\ assembled_ok = "True"
    /\ assembly_compare # None
    /\ assembly_variants # None
    /\ samtools_vars # None


(* C35: a second call of run() on a Cluster with a read store, made when   *)
(* root_dir exists, ends at input staging by raising, before the log is    *)
(* opened again and before any stage runs; and after a run with cleaning   *)
(* that returned, references.fa, reads_1.fq and reads_2.fq are gone, so a  *)
(* new Cluster over the same directory is refused with Error.              *)
C35_NoRerunInPlace ==
    /\ attempt = "second_in_place"
          => /\ pc \in {"init", "raised", "exited", "dead"}
             /\ IsPrefix(started, <<"input_staging">>)
             /\ completed = <<>>
             /\ pc = "raised" => (raised_in = "input_staging" /\ exc = "Other")
    /\ (pc = "returned" /\ clean)
          => {all_reads1, all_reads2, references_fa} \cap files = {}
    /\ (clean /\ attempt \in {"retry_constructed", "retry_Error"})
          => attempt = "retry_Error"

(* The second call on a cluster that was staged through the read store and *)
(* ran to the end without cleaning has raised at input staging.            *)
C35_Witness ==
    /\ attempt = "second_in_place"
    /\ pc = "raised"
    /\ ~clean
    /\ report_lines # None
    /\ {all_reads1, all_reads2} \subseteq files
    /\ started = <<"input_staging">>


(* C31, as stated: when a termination signal has been handled while        *)
(* cluster X was running, X's log has been closed by the handler and X's   *)
(* fail file, if it has one, has been written, whatever other Cluster      *)
(* objects were constructed in the process before X ran.                   *)
C31_Original ==
    (proc.phase = "exited" /\ proc.running # 0)
        => /\ proc.log_fh[proc.running] = "None"
           /\ Range(proc.fail_file[proc.running]) \subseteq proc.files

=============================================================================
